---- MODULE Spec2Model ----
(***************************************************************************)
(* DomainAnalyser: the DNS reconnaissance engine (dns_service.py) and the  *)
(* request handlers that reach it (main.py, models.py).                    *)
(*                                                                         *)
(* A str is a sequence of one-character strings; a list is a sequence; a   *)
(* dict is a function on its keys.                                         *)
(***************************************************************************)
EXTENDS Integers, Sequences, FiniteSets, TLC

(***************************************************************************)
(* Python str primitives                                                   *)
(***************************************************************************)

\* Unicode code points of the characters the model uses (str ordering).
CodePoint ==
    ("\t" :> 9) @@ ("\n" :> 10) @@ (" " :> 32) @@ ("#" :> 35) @@ ("-" :> 45) @@
    ("." :> 46) @@ ("0" :> 48) @@ ("1" :> 49) @@ ("2" :> 50) @@ ("3" :> 51) @@
    ("4" :> 52) @@ ("5" :> 53) @@ ("6" :> 54) @@ ("7" :> 55) @@ ("8" :> 56) @@
    ("9" :> 57) @@ (":" :> 58) @@ ("=" :> 61) @@ ("A" :> 65) @@ ("B" :> 66) @@
    ("C" :> 67) @@ ("D" :> 68) @@ ("E" :> 69) @@ ("F" :> 70) @@ ("G" :> 71) @@
    ("H" :> 72) @@ ("I" :> 73) @@ ("J" :> 74) @@ ("K" :> 75) @@ ("L" :> 76) @@
    ("M" :> 77) @@ ("N" :> 78) @@ ("O" :> 79) @@ ("P" :> 80) @@ ("Q" :> 81) @@
    ("R" :> 82) @@ ("S" :> 83) @@ ("T" :> 84) @@ ("U" :> 85) @@ ("V" :> 86) @@
    ("W" :> 87) @@ ("X" :> 88) @@ ("Y" :> 89) @@ ("Z" :> 90) @@ ("_" :> 95) @@
    ("a" :> 97) @@ ("b" :> 98) @@ ("c" :> 99) @@ ("d" :> 100) @@ ("e" :> 101) @@
    ("f" :> 102) @@ ("g" :> 103) @@ ("h" :> 104) @@ ("i" :> 105) @@ ("j" :> 106) @@
    ("k" :> 107) @@ ("l" :> 108) @@ ("m" :> 109) @@ ("n" :> 110) @@ ("o" :> 111) @@
    ("p" :> 112) @@ ("q" :> 113) @@ ("r" :> 114) @@ ("s" :> 115) @@ ("t" :> 116) @@
    ("u" :> 117) @@ ("v" :> 118) @@ ("w" :> 119) @@ ("x" :> 120) @@ ("y" :> 121) @@
    ("z" :> 122)

\* the character of a code point (chr)
Chr(n) == CHOOSE c \in DOMAIN CodePoint : CodePoint[c] = n

\* str.isspace() per character, within the characters modelled
Whitespace == {"\t", "\n", " "}
\* [A-Za-z], [0-9]
Letters == {c \in DOMAIN CodePoint : \/ CodePoint[c] \in 65..90
                                     \/ CodePoint[c] \in 97..122}
Digits == {c \in DOMAIN CodePoint : CodePoint[c] \in 48..57}
AlphaNum == Letters \cup Digits

Range(s) == {s[i] : i \in DOMAIN s}

\* str.lower() on one character
LowerChar(c) ==
    IF CodePoint[c] \in 65..90 THEN Chr(CodePoint[c] + 32) ELSE c

\* str.lower()
Lower(s) == [i \in DOMAIN s |-> LowerChar(s[i])]

\* str.upper() on one character
UpperChar(c) ==
    IF CodePoint[c] \in 97..122 THEN Chr(CodePoint[c] - 32) ELSE c

\* str.title(): a letter is upper case after a character that is no letter
\* (or at the start), lower case after a letter
Title(s) ==
    [i \in DOMAIN s |->
        IF s[i] \notin Letters THEN s[i]
        ELSE IF i = 1 \/ s[i - 1] \notin Letters THEN UpperChar(s[i])
        ELSE LowerChar(s[i])]

\* str.replace(old, new) for single characters
Replace(s, old, new) == [i \in DOMAIN s |-> IF s[i] = old THEN new ELSE s[i]]

\* str.startswith(prefix)
StartsWith(s, prefix) ==
    /\ Len(s) >= Len(prefix)
    /\ SubSeq(s, 1, Len(prefix)) = prefix

\* str.strip(): leading and trailing whitespace removed
Strip(s) ==
    LET keep == {i \in DOMAIN s : s[i] \notin Whitespace}
    IN  IF keep = {} THEN <<>>
        ELSE LET lo == CHOOSE i \in keep : \A j \in keep : i <= j
                 hi == CHOOSE i \in keep : \A j \in keep : i >= j
             IN  SubSeq(s, lo, hi)

\* str.rstrip("."): every trailing dot removed
RStripDot(s) ==
    LET keep == {i \in DOMAIN s : s[i] # "."}
    IN  IF keep = {} THEN <<>>
        ELSE SubSeq(s, 1, CHOOSE i \in keep : \A j \in keep : i >= j)

\* s < t in the str ordering of Python (lexicographic by code point)
StrLess(s, t) ==
    \E k \in 0..Len(s) :
        /\ k <= Len(t)
        /\ \A i \in 1..k : s[i] = t[i]
        /\ \/ k = Len(s) /\ k < Len(t)
           \/ k < Len(s) /\ k < Len(t) /\ CodePoint[s[k + 1]] < CodePoint[t[k + 1]]

StrLeq(s, t) == s = t \/ StrLess(s, t)

\* sorted(S) for a set S of str
RECURSIVE Sorted(_)
Sorted(S) ==
    IF S = {} THEN <<>>
    ELSE LET least == CHOOSE x \in S : \A y \in S : StrLeq(x, y)
         IN  <<least>> \o Sorted(S \ {least})

\* the parts of s between occurrences of sep (str.split(sep))
RECURSIVE Split(_, _)
Split(s, sep) ==
    LET at == {i \in DOMAIN s : s[i] = sep}
    IN  IF at = {} THEN <<s>>
        ELSE LET first == CHOOSE i \in at : \A j \in at : i <= j
             IN  <<SubSeq(s, 1, first - 1)>> \o Split(SubSeq(s, first + 1, Len(s)), sep)

(***************************************************************************)
(* models.py: DomainLookupRequest.domain                                   *)
(***************************************************************************)

LabelInnerMax == 61
TldMin == 2
TldMax == 63

\* [A-Za-z0-9](?:[A-Za-z0-9-]{0,61}[A-Za-z0-9])?
IsLabel(l) ==
    /\ Len(l) >= 1
    /\ l[1] \in AlphaNum
    /\ Len(l) >= 2 =>
        /\ l[Len(l)] \in AlphaNum
        /\ Len(l) - 2 <= LabelInnerMax
        /\ \A i \in 2..(Len(l) - 1) : l[i] \in AlphaNum \cup {"-"}

\* [A-Za-z]{2,63}
IsTld(t) ==
    /\ Len(t) >= TldMin
    /\ Len(t) <= TldMax
    /\ \A i \in DOMAIN t : t[i] \in Letters

\* ^(?:<label>\.)+<tld>$ : one or more dot-terminated labels, then the tld
DomainPattern(s) ==
    LET parts == Split(s, ".")
    IN  /\ Len(parts) >= 2
        /\ \A i \in 1..(Len(parts) - 1) : IsLabel(parts[i])
        /\ IsTld(parts[Len(parts)])

(***************************************************************************)
(* dns_service.py: the resolver adapter and the pure helpers               *)
(***************************************************************************)

RECORD_TYPES == <<"A", "AAAA", "MX", "TXT", "NS", "CNAME">>
\* the three existence queries of verify_domain, in the order gathered
VERIFY_TYPES == <<"SOA", "A", "MX">>

\* What resolver.resolve(domain, record_type, raise_on_no_answer=False) does:
\* it returns an answer (rdata texts, none when the type has no rrset) or raises
\* one of the dns.resolver exceptions, another DNSException (a timeout), or an
\* exception that is no DNSException.
ReplyKinds ==
    {"answer", "NXDOMAIN", "NoNameservers", "NoAnswer", "DNSException", "Exception"}

Answer(rdata) == [kind |-> "answer", rdata |-> rdata]
Failure(kind) == [kind |-> kind, rdata |-> <<>>]

\* The result of a coroutine or task: a returned list, or a raised exception.
Returned(values) == [raised |-> FALSE, values |-> values]
Raised == [raised |-> TRUE, values |-> <<>>]

\* _query that returns the rdata texts as a list, in the order of the answer
_query_list(reply) ==
    IF reply.kind \in {"NXDOMAIN", "NoNameservers", "NoAnswer"} THEN Returned(<<>>)
    ELSE IF reply.kind = "DNSException" THEN Returned(<<>>)
    ELSE IF reply.kind = "Exception" THEN Raised
    ELSE Returned([i \in DOMAIN reply.rdata |-> RStripDot(reply.rdata[i])])

\* _resolve._query on the resolver's reply
_query(reply) ==
    IF reply.kind \in {"NXDOMAIN", "NoNameservers", "NoAnswer"} THEN Returned(<<>>)
    ELSE IF reply.kind = "DNSException" THEN Returned(<<>>)
    ELSE IF reply.kind = "Exception" THEN Raised
    ELSE Returned(Sorted({RStripDot(reply.rdata[i]) : i \in DOMAIN reply.rdata}))

\* any(item for item in results): an exception in the list counts as true
VerifyAnyItem(results) ==
    \E i \in DOMAIN results : results[i].raised \/ results[i].values # <<>>

\* verify_domain's return value from the three gathered results
\* (return_exceptions=True: a raised exception is an item of the list)
VerifyAny(results) ==
    \E i \in DOMAIN results : ~results[i].raised /\ results[i].values # <<>>

\* dict
EmptyDict == [k \in {} |-> <<>>]
Get(d, k) == IF k \in DOMAIN d THEN d[k] ELSE <<>>
Put(d, k, v) == [x \in DOMAIN d \cup {k} |-> IF x = k THEN v ELSE d[x]]

\* `values = await task` with no except clause
AwaitTaskNoExcept(outcome) == outcome

\* gather_dns_records: `values = await task` inside try/except; an exception
\* that is not a cancellation is caught and leaves values = []
AwaitTask(outcome) ==
    IF outcome.raised THEN Returned(<<>>) ELSE outcome

\* gather_dns_records: `if values: results[record_type] = values`
Collect(results, record_type, values) ==
    IF values # <<>> THEN Put(results, record_type, values) ELSE results

\* substring test: sub in s
Contains(s, sub) ==
    \E i \in 1..(Len(s) - Len(sub) + 1) : SubSeq(s, i, i + Len(sub) - 1) = sub

ProviderBreakdown(email, productivity, evidence) ==
    [email |-> email, productivity |-> productivity, evidence |-> evidence]

\* _classify_provider testing `if uses_google` before the combined case
_classify_provider_google_first(mx_hosts, txt_records) ==
    LET mx_hosts_lower == [i \in DOMAIN mx_hosts |-> Lower(mx_hosts[i])]
        txt_lower == [i \in DOMAIN txt_records |-> Lower(txt_records[i])]
        uses_google ==
            \/ \E i \in DOMAIN mx_hosts_lower :
                \/ Contains(mx_hosts_lower[i], <<"g", "o", "o", "g", "l", "e">>)
                \/ Contains(mx_hosts_lower[i], <<"a", "s", "p", "m", "x">>)
            \/ \E i \in DOMAIN txt_lower :
                Contains(txt_lower[i], <<"g", "o", "o", "g", "l", "e", "-", "s", "i", "t", "e", "-", "v", "e", "r", "i", "f", "i", "c", "a", "t", "i", "o", "n">>)
        uses_m365 ==
            \/ \E i \in DOMAIN mx_hosts_lower :
                \/ Contains(mx_hosts_lower[i], <<"o", "u", "t", "l", "o", "o", "k">>)
                \/ Contains(mx_hosts_lower[i], <<"p", "r", "o", "t", "e", "c", "t", "i", "o", "n", ".", "o", "u", "t", "l", "o", "o", "k", ".", "c", "o", "m">>)
            \/ \E i \in DOMAIN txt_lower :
                Contains(txt_lower[i], <<"s", "p", "f", ".", "p", "r", "o", "t", "e", "c", "t", "i", "o", "n", ".", "o", "u", "t", "l", "o", "o", "k", ".", "c", "o", "m">>)
        label ==
            IF uses_google THEN "Google Workspace"
            ELSE IF uses_google /\ uses_m365 THEN "Google Workspace + Office 365"
            ELSE IF uses_m365 THEN "Office 365"
            ELSE "Other / Unknown"
        ev1 == IF mx_hosts # <<>> THEN Put(EmptyDict, "mx", mx_hosts) ELSE EmptyDict
        evidence == IF txt_records # <<>> THEN Put(ev1, "txt", txt_records) ELSE ev1
    IN  ProviderBreakdown(label, label, evidence)

\* _classify_provider setting evidence["mx"] and evidence["txt"] without testing the lists
_classify_provider_evidence_always(mx_hosts, txt_records) ==
    LET mx_hosts_lower == [i \in DOMAIN mx_hosts |-> Lower(mx_hosts[i])]
        txt_lower == [i \in DOMAIN txt_records |-> Lower(txt_records[i])]
        uses_google ==
            \/ \E i \in DOMAIN mx_hosts_lower :
                \/ Contains(mx_hosts_lower[i], <<"g", "o", "o", "g", "l", "e">>)
                \/ Contains(mx_hosts_lower[i], <<"a", "s", "p", "m", "x">>)
            \/ \E i \in DOMAIN txt_lower :
                Contains(txt_lower[i], <<"g", "o", "o", "g", "l", "e", "-", "s", "i", "t", "e", "-", "v", "e", "r", "i", "f", "i", "c", "a", "t", "i", "o", "n">>)
        uses_m365 ==
            \/ \E i \in DOMAIN mx_hosts_lower :
                \/ Contains(mx_hosts_lower[i], <<"o", "u", "t", "l", "o", "o", "k">>)
                \/ Contains(mx_hosts_lower[i], <<"p", "r", "o", "t", "e", "c", "t", "i", "o", "n", ".", "o", "u", "t", "l", "o", "o", "k", ".", "c", "o", "m">>)
            \/ \E i \in DOMAIN txt_lower :
                Contains(txt_lower[i], <<"s", "p", "f", ".", "p", "r", "o", "t", "e", "c", "t", "i", "o", "n", ".", "o", "u", "t", "l", "o", "o", "k", ".", "c", "o", "m">>)
        label ==
            IF uses_google /\ uses_m365 THEN "Google Workspace + Office 365"
            ELSE IF uses_google THEN "Google Workspace"
            ELSE IF uses_m365 THEN "Office 365"
            ELSE "Other / Unknown"
        ev1 == Put(EmptyDict, "mx", mx_hosts)
        evidence == Put(ev1, "txt", txt_records)
    IN  ProviderBreakdown(label, label, evidence)

_classify_provider(mx_hosts, txt_records) ==
    LET mx_hosts_lower == [i \in DOMAIN mx_hosts |-> Lower(mx_hosts[i])]
        txt_lower == [i \in DOMAIN txt_records |-> Lower(txt_records[i])]
        uses_google ==
            \/ \E i \in DOMAIN mx_hosts_lower :
                \/ Contains(mx_hosts_lower[i], <<"g", "o", "o", "g", "l", "e">>)
                \/ Contains(mx_hosts_lower[i], <<"a", "s", "p", "m", "x">>)
            \/ \E i \in DOMAIN txt_lower :
                Contains(txt_lower[i], <<"g", "o", "o", "g", "l", "e", "-", "s", "i", "t", "e", "-", "v", "e", "r", "i", "f", "i", "c", "a", "t", "i", "o", "n">>)
        uses_m365 ==
            \/ \E i \in DOMAIN mx_hosts_lower :
                \/ Contains(mx_hosts_lower[i], <<"o", "u", "t", "l", "o", "o", "k">>)
                \/ Contains(mx_hosts_lower[i], <<"p", "r", "o", "t", "e", "c", "t", "i", "o", "n", ".", "o", "u", "t", "l", "o", "o", "k", ".", "c", "o", "m">>)
            \/ \E i \in DOMAIN txt_lower :
                Contains(txt_lower[i], <<"s", "p", "f", ".", "p", "r", "o", "t", "e", "c", "t", "i", "o", "n", ".", "o", "u", "t", "l", "o", "o", "k", ".", "c", "o", "m">>)
        label ==
            IF uses_google /\ uses_m365 THEN "Google Workspace + Office 365"
            ELSE IF uses_google THEN "Google Workspace"
            ELSE IF uses_m365 THEN "Office 365"
            ELSE "Other / Unknown"
        ev1 == IF mx_hosts # <<>> THEN Put(EmptyDict, "mx", mx_hosts) ELSE EmptyDict
        evidence == IF txt_records # <<>> THEN Put(ev1, "txt", txt_records) ELSE ev1
    IN  ProviderBreakdown(label, label, evidence)

\* re.compile(pattern, re.IGNORECASE): within the characters modelled the only
\* metacharacter is ".", which matches any character but a newline; every
\* other character matches itself in either case
MatchChar(p, c) == IF p = "." THEN c # "\n" ELSE LowerChar(p) = LowerChar(c)

\* Pattern.search(value): the pattern matches at some position of value
Search(pattern, value) ==
    \E i \in 1..(Len(value) - Len(pattern) + 1) :
        \A k \in DOMAIN pattern : MatchChar(pattern[k], value[i + k - 1])

\* _match_patterns
_match_patterns(values, patterns) ==
    \E i \in DOMAIN values : \E j \in DOMAIN patterns : Search(patterns[j], values[i])

\* the values of the dict's record types outside NS/MX/TXT, in dict order
RECURSIVE OtherRecords(_, _)
OtherRecords(records, n) ==
    IF n = 0 THEN <<>>
    ELSE OtherRecords(records, n - 1) \o
         (IF RECORD_TYPES[n] \in DOMAIN records /\ RECORD_TYPES[n] \notin {"NS", "MX", "TXT"}
          THEN records[RECORD_TYPES[n]] ELSE <<>>)

\* ProviderDetected matching the asn patterns against other_records only
ProviderDetectedOtherOnly(provider, records) ==
    LET patterns == provider.patterns
        ns_records == Get(records, "NS")
        mx_records == Get(records, "MX")
        txt_records == Get(records, "TXT")
        other_records == OtherRecords(records, Len(RECORD_TYPES))
        asn_source == other_records
        d1 == patterns.ns # <<>> /\ _match_patterns(ns_records, patterns.ns)
        d2 == IF ~d1 /\ patterns.mx # <<>> /\ _match_patterns(mx_records, patterns.mx)
              THEN TRUE ELSE d1
        d3 == IF ~d2 /\ patterns.spf # <<>>
              THEN _match_patterns(txt_records, patterns.spf) ELSE d2
        d4 == IF ~d3 /\ patterns.asn # <<>>
              THEN _match_patterns(asn_source, patterns.asn) ELSE d3
    IN  d4

\* whether one provider of the table is detected
ProviderDetected(provider, records) ==
    LET patterns == provider.patterns
        ns_records == Get(records, "NS")
        mx_records == Get(records, "MX")
        txt_records == Get(records, "TXT")
        other_records == OtherRecords(records, Len(RECORD_TYPES))
        asn_source ==
            IF other_records # <<>> THEN other_records
            ELSE IF ns_records # <<>> THEN ns_records
            ELSE mx_records
        d1 == patterns.ns # <<>> /\ _match_patterns(ns_records, patterns.ns)
        d2 == IF ~d1 /\ patterns.mx # <<>> /\ _match_patterns(mx_records, patterns.mx)
              THEN TRUE ELSE d1
        d3 == IF ~d2 /\ patterns.spf # <<>>
              THEN _match_patterns(txt_records, patterns.spf) ELSE d2
        d4 == IF ~d3 /\ patterns.asn # <<>>
              THEN _match_patterns(asn_source, patterns.asn) ELSE d3
    IN  d4

\* _detect_networks answering ["Unknown"] when there is no provider table
_detect_networks_unknown(table, records) ==
    IF table = <<>> THEN <<<<"U", "n", "k", "n", "o", "w", "n">>>>
    ELSE Sorted({table[i].name : i \in {j \in DOMAIN table : ProviderDetected(table[j], records)}})

_detect_networks(table, records) ==
    IF table = <<>> THEN <<>>
    ELSE Sorted({table[i].name : i \in {j \in DOMAIN table : ProviderDetected(table[j], records)}})

\* models.py: the fields a SubdomainInsight declares; pydantic ignores a keyword
\* that is no declared field, so `networks` is not kept
SubdomainInsight(fqdn, records, providers, networks) ==
    [fqdn |-> fqdn, records |-> records, providers |-> providers]

\* models.py: the fields a DomainAnalysisResponse declares (`networks` is none)
DomainAnalysisResponse(domain, exists, apex_records, providers, subdomains, networks) ==
    [domain |-> domain, exists |-> exists, apex_records |-> apex_records,
     providers |-> providers, subdomains |-> subdomains]

\* _enumerate_subdomains: the candidates read from the wordlist's lines
RECURSIVE Candidates(_)
Candidates(lines) ==
    IF lines = <<>> THEN <<>>
    ELSE LET line == Head(lines)
         IN  (IF Strip(line) # <<>> /\ ~StartsWith(line, <<"#">>)
              THEN <<Strip(line)>> ELSE <<>>) \o Candidates(Tail(lines))

\* f"{candidate}.{domain}"
Fqdn(candidate, domain) == candidate \o <<".">> \o domain

\* insights.sort(key=lambda item: item.fqdn): a stable sort
RECURSIVE SortByFqdn(_)
SortByFqdn(insights) ==
    IF insights = <<>> THEN <<>>
    ELSE LET rest == SortByFqdn(Tail(insights))
             x == Head(insights)
             before == {i \in DOMAIN rest : StrLess(rest[i].fqdn, x.fqdn)}
             n == Cardinality(before)
         IN  SubSeq(rest, 1, n) \o <<x>> \o SubSeq(rest, n + 1, Len(rest))

(***************************************************************************)
(* The environment of a run: the DNS zone the resolver sees, the wordlist  *)
(* files, the provider table.                                              *)
(***************************************************************************)

\* Largest max_concurrency a request of the model asks for inside 1..100.
MaxCap == 2
\* Query(20, ge=1, le=100) and analyze_domain's default
CapMin == 1
CapMax == 100
CapDefault == 20

\* The zone: a.io exists, with two subdomains that answer, w and m, and one whose
\* every query raises, e; every other name is NXDOMAIN.
Zone ==
    ( <<<<"a", ".", "i", "o">>, "SOA">> :> Answer(<<<<"n", "s", ".", "a", ".", "i", "o", ".">>>>) ) @@
    ( <<<<"a", ".", "i", "o">>, "A">> :> Answer(<<<<"2">>, <<"1">>>>) ) @@
    ( <<<<"a", ".", "i", "o">>, "AAAA">> :> Failure("DNSException") ) @@
    ( <<<<"a", ".", "i", "o">>, "MX">> :> Answer(<<<<"1", " ", "a", "s", "p", "m", "x", ".", "b", ".">>, <<"1", " ", "a", "s", "p", "m", "x", ".", "b">>>>) ) @@
    ( <<<<"a", ".", "i", "o">>, "TXT">> :> Failure("NoAnswer") ) @@
    ( <<<<"a", ".", "i", "o">>, "NS">> :> Failure("Exception") ) @@
    ( <<<<"a", ".", "i", "o">>, "CNAME">> :> Answer(<<>>) ) @@
    ( <<<<"w", ".", "a", ".", "i", "o">>, "A">> :> Answer(<<<<"1">>>>) ) @@
    ( <<<<"w", ".", "a", ".", "i", "o">>, "AAAA">> :> Answer(<<>>) ) @@
    ( <<<<"w", ".", "a", ".", "i", "o">>, "MX">> :> Answer(<<>>) ) @@
    ( <<<<"w", ".", "a", ".", "i", "o">>, "TXT">> :> Answer(<<>>) ) @@
    ( <<<<"w", ".", "a", ".", "i", "o">>, "NS">> :> Failure("NoNameservers") ) @@
    ( <<<<"w", ".", "a", ".", "i", "o">>, "CNAME">> :> Answer(<<<<"a", ".", "i", "o", ".">>>>) ) @@
    ( <<<<"m", ".", "a", ".", "i", "o">>, "A">> :> Failure("Exception") ) @@
    ( <<<<"m", ".", "a", ".", "i", "o">>, "AAAA">> :> Answer(<<>>) ) @@
    ( <<<<"m", ".", "a", ".", "i", "o">>, "MX">> :> Answer(<<<<"1", " ", "m", ".", "o", "u", "t", "l", "o", "o", "k", ".", "c", "o", "m", ".">>>>) ) @@
    ( <<<<"m", ".", "a", ".", "i", "o">>, "TXT">> :> Answer(<<<<"v", "=", "s", "p", "f", "1">>, <<"b">>>>) ) @@
    ( <<<<"m", ".", "a", ".", "i", "o">>, "NS">> :> Answer(<<>>) ) @@
    ( <<<<"m", ".", "a", ".", "i", "o">>, "CNAME">> :> Answer(<<>>) ) @@
    ( <<<<"e", ".", "a", ".", "i", "o">>, "A">> :> Failure("Exception") ) @@
    ( <<<<"e", ".", "a", ".", "i", "o">>, "AAAA">> :> Failure("Exception") ) @@
    ( <<<<"e", ".", "a", ".", "i", "o">>, "MX">> :> Failure("Exception") ) @@
    ( <<<<"e", ".", "a", ".", "i", "o">>, "TXT">> :> Failure("Exception") ) @@
    ( <<<<"e", ".", "a", ".", "i", "o">>, "NS">> :> Failure("Exception") ) @@
    ( <<<<"e", ".", "a", ".", "i", "o">>, "CNAME">> :> Failure("Exception") )

\* The wordlist files that exist, by path, each the lines its iteration yields.
\* "common.txt" is WORDLIST_DEFAULT.
WordlistFiles ==
    ( "common.txt" :> <<<<"m", "\n">>, <<"e", "\n">>>> ) @@
    ( "list.txt" :> <<<<" ", "w", " ", "\n">>, <<"#", "c", "\n">>, <<"\n">>, <<" ", "#", "x", "\n">>, <<"m">>>> ) @@
    ( "empty.txt" :> <<<<"\n">>, <<"#", " ", "n", "o", "n", "e", "\n">>>> )
WORDLIST_DEFAULT == "common.txt"
\* the paths a request may name ("" is no wordlist parameter)
WordlistParams == {"", "list.txt", "empty.txt", "missing.txt"}

\* The domains requested: one that exists (given in upper case), one that does
\* not, one that is no domain by the pattern.
RequestDomains == {<<"A", ".", "i", "o">>, <<"b", ".", "i", "o">>, <<"-", ".", "i", "o">>}

\* PROVIDER_PATTERNS as loaded from providers.json
ProviderTable ==
    << [name |-> <<"G", "o", "o", "g", "l", "e">>, patterns |-> [ns |-> <<>>, mx |-> <<<<"a", "s", "p", "m", "x">>>>, spf |-> <<>>, asn |-> <<>>]],
       [name |-> <<"H", "e", "t", "z", "n", "e", "r">>, patterns |-> [ns |-> <<<<"h", "e", "t", "z", "n", "e", "r">>>>, mx |-> <<>>, spf |-> <<>>, asn |-> <<<<"1">>>>]] >>

(***************************************************************************)
(* State.  The service runs on one event loop; every call of a coroutine   *)
(* of dns_service.py and every request has its own task, and several are   *)
(* suspended at the same time.  One action is one callback of the event    *)
(* loop seen from one call: the call arriving (it runs to its first        *)
(* suspension), the first step of a task, which for a _resolve task hands  *)
(* the query to the executor, the executor finishing a query (the _resolve *)
(* task ends), a coroutine whose awaited task or future is done being      *)
(* resumed (it runs on to its next suspension), Task.cancel() called on    *)
(* the task of a call, and each delivery of that cancellation: a task that *)
(* was awaited ending cancelled, a _probe leaving `async with semaphore`,  *)
(* and last the task of the call itself ending.                            *)
(*                                                                         *)
(* A task is "created" until its first step, "pending" while its query is  *)
(* in the executor, and then "done" or "cancelled".  The tasks created in  *)
(* one step run their first step in the order they were created, in the    *)
(* iteration of the event loop that follows, so before any of them can     *)
(* have completed.                                                         *)
(***************************************************************************)

\* the calls and requests followed at the same time, numbered as they arrive
MaxRequests == 2
Requests == 1..MaxRequests

VARIABLES
    dns,                \* the resolver's replies: <<name, record type>> -> reply
    provider_patterns,  \* PROVIDER_PATTERNS
    domain_reports,     \* the rows of table domain_reports
    request,            \* per call: what was called, with its arguments
    pc,                 \* per call: where its coroutine is suspended
    cancelling,         \* per call: cancel() was called on its task, which has not ended yet
    verify_tasks,       \* per call: verify_domain: the state of the three gathered tasks
    apex,               \* per call: gather_dns_records(domain): its tasks, index, results
    semaphore,          \* per call: _enumerate_subdomains: [value, waiters]
    probes,             \* per call: _enumerate_subdomains: one entry per _probe task
    insights,           \* per call: _enumerate_subdomains: the insights list
    analysis,           \* per call: what analyze_domain returned: <<>> or <<response>>
    status,             \* per request: the HTTP status answered, 0 while there is none
    response,           \* per call: what was answered or returned: <<>> or <<body>>
    queries             \* per call: every <<name, record type>> handed to the executor

vars ==
    <<dns, provider_patterns, domain_reports, request, pc, cancelling, verify_tasks, apex,
      semaphore, probes, insights, analysis, status, response, queries>>

NoRequest ==
    [entry |-> "", domain |-> <<>>, include_subdomains |-> FALSE, wordlist |-> "",
     max_concurrency |-> 0]

\* gather_dns_records before it is called
NoGather == [idx |-> 0, tasks |-> <<>>, results |-> EmptyDict, raised |-> FALSE]

\* gather_dns_records after lines 83-84: six tasks created, results = {}
StartedGather ==
    [idx |-> 1, tasks |-> [i \in DOMAIN RECORD_TYPES |-> "created"],
     results |-> EmptyDict, raised |-> FALSE]

ResolverReply(domain, record_type) ==
    IF <<domain, record_type>> \in DOMAIN dns THEN dns[<<domain, record_type>>]
    ELSE Failure("NXDOMAIN")

\* the result of the task running _resolve(domain, record_type)
_resolve(domain, record_type) == _query(ResolverReply(domain, record_type))

QueriesFor(domain, types) == {<<domain, types[i]>> : i \in DOMAIN types}

\* a task among those created together has a task created before it that has
\* not run its first step
Unstarted(tasks) == \E i \in DOMAIN tasks : tasks[i] = "created"

\* the i-th task is the next of its siblings to run its first step
CanStart(tasks, i) ==
    /\ i \in DOMAIN tasks
    /\ tasks[i] = "created"
    /\ \A j \in 1..(i - 1) : tasks[j] # "created"

\* the query of the i-th task can have completed: its siblings have all run
\* their first step
CanComplete(tasks, i) ==
    /\ i \in DOMAIN tasks
    /\ tasks[i] = "pending"
    /\ ~Unstarted(tasks)

\* The i-th task can be the next of its siblings to end cancelled, all of them
\* cancelled in one step.  Those that have not run end at their first step,
\* which is scheduled already, in the order they were created.  Those that had
\* started end when they are resumed: first the ones whose query had completed
\* when they were cancelled (the resumption of each was scheduled then, in the
\* order the queries completed, which is any order), then the others.
NextCancelled(tasks, i) ==
    \/ CanStart(tasks, i)
    \/ CanComplete(tasks, i)

\* gather_dns_records returning as soon as one type has yielded records
RECURSIVE ResumeEarly(_, _)
ResumeEarly(g, domain) ==
    IF g.raised \/ g.idx > Len(RECORD_TYPES) THEN g
    ELSE IF g.tasks[g.idx] # "done" THEN g
    ELSE LET r == AwaitTask(_resolve(domain, RECORD_TYPES[g.idx]))
             next == [g EXCEPT !.results = Collect(@, RECORD_TYPES[g.idx], r.values),
                               !.idx = @ + 1]
         IN  IF r.raised THEN [g EXCEPT !.raised = TRUE]
             ELSE IF next.results # EmptyDict
             THEN [next EXCEPT !.idx = Len(RECORD_TYPES) + 1]
             ELSE ResumeEarly(next, domain)

\* gather_dns_records resumed at `await task`: it takes the result of every
\* task that is done, in order, until it meets one that is not, returns
\* (idx = 7) or raises
RECURSIVE Resume(_, _)
Resume(g, domain) ==
    IF g.raised \/ g.idx > Len(RECORD_TYPES) THEN g
    ELSE IF g.tasks[g.idx] # "done" THEN g
    ELSE LET r == AwaitTask(_resolve(domain, RECORD_TYPES[g.idx]))
         IN  IF r.raised THEN [g EXCEPT !.raised = TRUE]
             ELSE Resume([g EXCEPT !.results = Collect(@, RECORD_TYPES[g.idx], r.values),
                                   !.idx = @ + 1], domain)

GatherReturned(g) == ~g.raised /\ g.idx = Len(RECORD_TYPES) + 1

\* gather_dns_records is suspended at `await task` on a task that is done: the
\* event loop has its resumption scheduled
Ready(g) == g.idx \in DOMAIN g.tasks /\ g.tasks[g.idx] = "done"

\* gather_dns_records is suspended at `await task` on a task that can still be
\* cancelled: a cancellation of the awaiting task is passed on to it
Awaiting(g) == g.idx \in DOMAIN g.tasks /\ g.tasks[g.idx] \in {"created", "pending"}

\* acquire() that never finds the semaphore locked
LockedNever(sem) == FALSE

\* Semaphore.locked(), where no waiter is cancelled (a probe calls it in its
\* first step, and no probe takes a first step once the enumeration is being
\* cancelled)
Locked(sem) == sem.value = 0 \/ sem.waiters # <<>>

\* release() that wakes no waiter
WakeUpNextNever(s) == s

\* Semaphore._wake_up_next on s = [semaphore, probes, cancel]: the first
\* waiter whose future is not done gets the permit (value - 1) and its future
\* is set; it stays in the queue until it is resumed.  The future of a waiter
\* is done when it was set (the probe is woken) or cancelled, as the futures
\* of all waiters are once the enumeration is being cancelled.
WakeUpNext(s) ==
    LET ws == s.semaphore.waiters
        pending == IF s.cancel THEN {}
                   ELSE {k \in DOMAIN ws : s.probes[ws[k]].state = "waiting"}
    IN  IF pending = {} THEN s
        ELSE LET k == CHOOSE x \in pending : \A y \in pending : x <= y
             IN  [s EXCEPT !.semaphore.value = @ - 1,
                           !.probes[ws[k]].state = "woken"]

\* a probe that leaves gather_dns_records without release()
ReleaseNever(s) == s

\* Semaphore.release(), at the exit of `async with semaphore`
Release(s) == WakeUpNext([s EXCEPT !.semaphore.value = @ + 1])

\* deque.remove
RECURSIVE Remove(_, _)
Remove(q, x) ==
    IF q = <<>> THEN <<>>
    ELSE IF Head(q) = x THEN Tail(q)
    ELSE <<Head(q)>> \o Remove(Tail(q), x)

\* acquire() resumed after `await fut` (probe p was woken): it leaves the
\* queue and wakes the next waiter if a permit is free
Acquired(s, p) ==
    LET left == [s EXCEPT !.semaphore.waiters = Remove(@, p)]
    IN  IF left.semaphore.value > 0 THEN WakeUpNext(left) ELSE left

\* acquire() resumed with CancelledError at `await fut`: probe p leaves the
\* queue; if its future was set and not cancelled (p was woken) the permit it
\* was handed goes back and the next waiter is woken
CancelledInAcquire(s, p) ==
    LET left == [s EXCEPT !.semaphore.waiters = Remove(@, p)]
    IN  IF s.probes[p].state = "woken"
        THEN WakeUpNext([left EXCEPT !.semaphore.value = @ + 1])
        ELSE left

\* asyncio.gather(*(_probe(candidate) ...)): a task is created for each
\* _probe coroutine, in wordlist order; none has run yet
CreatedProbes(candidates, domain) ==
    [n \in DOMAIN candidates |->
        [candidate |-> candidates[n], fqdn |-> Fqdn(candidates[n], domain),
         state |-> "created", g |-> NoGather]]

\* the first step of the n-th _probe task: `async with semaphore` either
\* takes a permit at once and calls gather_dns_records, which creates its
\* tasks, or queues in acquire()
StartProbe(s, n) ==
    IF ~Locked(s.semaphore)
    THEN [s EXCEPT !.semaphore.value = @ - 1,
                   !.probes[n].state = "inside",
                   !.probes[n].g = StartedGather]
    ELSE [s EXCEPT !.semaphore.waiters = Append(@, n),
                   !.probes[n].state = "waiting"]

\* the probes inside gather_dns_records (holding a permit)
Inside(ps) == {p \in DOMAIN ps : ps[p].state = "inside"}

\* the probes woken in acquire() and not resumed yet (holding a permit)
Woken(ps) == {p \in DOMAIN ps : ps[p].state = "woken"}

(***************************************************************************)
(* analyze_domain and the handlers of main.py                              *)
(***************************************************************************)

Idle ==
    /\ domain_reports = <<>>
    /\ request = [r \in Requests |-> NoRequest]
    /\ pc = [r \in Requests |-> "idle"]
    /\ cancelling = [r \in Requests |-> FALSE]
    /\ verify_tasks = [r \in Requests |-> <<>>]
    /\ apex = [r \in Requests |-> NoGather]
    /\ semaphore = [r \in Requests |-> [value |-> 0, waiters |-> <<>>]]
    /\ probes = [r \in Requests |-> <<>>]
    /\ insights = [r \in Requests |-> <<>>]
    /\ analysis = [r \in Requests |-> <<>>]
    /\ status = [r \in Requests |-> 0]
    /\ response = [r \in Requests |-> <<>>]
    /\ queries = [r \in Requests |-> {}]

Init ==
    /\ dns = Zone
    /\ provider_patterns = ProviderTable
    /\ Idle

\* call r arrives: it is the next one, the calls before it have arrived
Arrives(r) ==
    /\ pc[r] = "idle"
    /\ \A q \in 1..(r - 1) : pc[q] # "idle"

\* verify_domain
verify_domain(domain) ==
    VerifyAny([i \in DOMAIN VERIFY_TYPES |-> _resolve(domain, VERIFY_TYPES[i])])

\* analyze_domain: the response for a domain that does not exist
NotFoundAnalysis(domain) ==
    DomainAnalysisResponse(domain, FALSE, EmptyDict,
        ProviderBreakdown("Unknown", "Unknown", EmptyDict), <<>>, <<>>)

\* analyze_domain: the response for a domain that exists
FoundAnalysis(domain, apex_records, subdomains) ==
    DomainAnalysisResponse(domain, TRUE, apex_records,
        _classify_provider(Get(apex_records, "MX"), Get(apex_records, "TXT")),
        subdomains, _detect_networks(provider_patterns, apex_records))

\* _probe without `if not records: return`
ProbeInsightsAlways(ins, fqdn, records) ==
    Append(ins, SubdomainInsight(fqdn, records,
        _classify_provider(Get(records, "MX"), Get(records, "TXT")),
        _detect_networks(provider_patterns, records)))

\* _probe after `async with semaphore` (lines 184-188): the insights list
\* after a probe whose gather_dns_records returned records
ProbeInsights(ins, fqdn, records) ==
    IF records = EmptyDict THEN ins
    ELSE Append(ins, SubdomainInsight(fqdn, records,
             _classify_provider(Get(records, "MX"), Get(records, "TXT")),
             _detect_networks(provider_patterns, records)))

\* _enumerate_subdomains: the candidates it probes, for the wordlist
\* analyze_domain was given ("" is none: WORDLIST_DEFAULT); none when the file
\* does not exist
EnumCandidates(wordlist) ==
    LET path == IF wordlist # "" THEN wordlist ELSE WORDLIST_DEFAULT
    IN  IF path \notin DOMAIN WordlistFiles THEN <<>>
        ELSE Candidates(WordlistFiles[path])

\* _enumerate_subdomains returning insights without the sort
EnumResultUnsorted(ins) == ins

\* _enumerate_subdomains lines 191-192
EnumResult(ins) == SortByFqdn(ins)

\* db.save_analysis: the row it inserts (json.dumps of each column; the flag
\* exists is stored as 1 or 0)
ReportRow(a, looked_up_at) ==
    [domain |-> a.domain, looked_up_at |-> looked_up_at,
     domain_exists |-> IF a.exists THEN 1 ELSE 0,
     apex_records |-> a.apex_records, providers |-> a.providers,
     subdomains |-> a.subdomains, networks |-> a.networks]

\* db.save_analysis(analysis, looked_up_at) on the table rows: the payload is
\* built first, and reading analysis.networks of an object without that
\* attribute raises AttributeError before the INSERT; else one row is appended
save_analysis(rows, a, looked_up_at) ==
    IF "networks" \notin DOMAIN a THEN [raised |-> TRUE, rows |-> rows]
    ELSE [raised |-> FALSE, rows |-> Append(rows, ReportRow(a, looked_up_at))]

\* db.fetch_report_by_domain: the dict of a row of the domain with the
\* greatest looked_up_at (ORDER BY looked_up_at DESC LIMIT 1 names no order
\* among rows of equal looked_up_at: any of them may be the one returned);
\* the empty set is None
fetch_report_by_domain(domain) ==
    LET rows == {i \in DOMAIN domain_reports : domain_reports[i].domain = domain}
        latest == {i \in rows : \A j \in rows :
                      domain_reports[j].looked_up_at <= domain_reports[i].looked_up_at}
    IN  {[domain |-> domain_reports[i].domain,
          looked_up_at |-> domain_reports[i].looked_up_at,
          exists |-> domain_reports[i].domain_exists # 0,
          apex_records |-> domain_reports[i].apex_records,
          providers |-> domain_reports[i].providers,
          subdomains |-> domain_reports[i].subdomains,
          networks |-> domain_reports[i].networks] : i \in latest}

\* main._build_subdomain_insights
_build_subdomain_insights(records) ==
    [i \in DOMAIN records |->
        SubdomainInsight(records[i].fqdn, records[i].records, records[i].providers,
                         Get(records[i], "networks"))]

\* main._build_domain_analysis
_build_domain_analysis(row) ==
    DomainAnalysisResponse(row.domain, row.exists, row.apex_records, row.providers,
                           _build_subdomain_insights(row.subdomains), Get(row, "networks"))

\* the classes models.py declares
Models ==
    {"DomainAnalysisResponse", "DomainLookupRequest", "DomainLookupResponse",
     "ProviderBreakdown", "SubdomainInsight"}

\* main.py lines 13-20, `from .models import (...)`, with the names in
\* `declared` defined by models.py: the import succeeds when every name it
\* lists is defined, and raises ImportError otherwise, in which case main.py
\* defines no handler.  ImportMain(Models) is FALSE: the repository as it
\* stands serves no request.
ImportMain(declared) ==
    {"DomainAnalysisResponse", "DomainLookupRequest", "DomainLookupResponse",
     "ProviderBreakdown", "StoredReport", "SubdomainInsight"} \subseteq declared

\* The response model of list_reports.  main.py imports it from .models and
\* builds it in _build_stored_report; models.py does not declare it.  It is
\* taken here as a class models.py declares, with the fields
\* _build_stored_report passes.
StoredReport == "StoredReport"

\* The handlers of main.py are routed: the service is the repository with
\* StoredReport declared, the rest of models.py as it is.
Routed == ImportMain(Models \cup {StoredReport})

\* the handlers of main.py that reach the engine
Handlers == {"lookup_domain", "get_domain_analysis", "get_report"}

\* a request the framework rejects before the handler runs (422)
Reject(r) ==
    /\ status' = [status EXCEPT ![r] = 422]
    /\ pc' = [pc EXCEPT ![r] = "done"]
    /\ UNCHANGED verify_tasks

\* verify_domain entered: asyncio.gather wraps the three _resolve coroutines
\* in tasks and the caller suspends
StartVerify(r) ==
    /\ verify_tasks' = [verify_tasks EXCEPT ![r] = [i \in DOMAIN VERIFY_TYPES |-> "created"]]
    /\ pc' = [pc EXCEPT ![r] = "verify"]
    /\ UNCHANGED status

\* an exception that is no cancellation leaves analyze_domain; a handler does
\* not catch it (500)
Fail(r) ==
    /\ status' = [status EXCEPT ![r] = IF request[r].entry \in Handlers THEN 500 ELSE @]
    /\ pc' = [pc EXCEPT ![r] = "failed"]
    /\ UNCHANGED <<analysis, response, domain_reports>>

\* analyze_domain has returned a to get_domain_analysis or get_report: they
\* answer 404 for a domain that does not exist, else call save_analysis with
\* the time of the call (one later than every time before) and answer the
\* analysis; an exception of save_analysis is not caught (500)
Answered(r, a) ==
    LET saved == save_analysis(domain_reports, a, Len(domain_reports) + 1)
    IN  /\ analysis' = [analysis EXCEPT ![r] = <<a>>]
        /\ pc' = [pc EXCEPT ![r] = "done"]
        /\ IF ~a.exists
           THEN /\ status' = [status EXCEPT ![r] = 404]
                /\ UNCHANGED <<response, domain_reports>>
           ELSE IF saved.raised
           THEN /\ status' = [status EXCEPT ![r] = 500]
                /\ UNCHANGED <<response, domain_reports>>
           ELSE /\ domain_reports' = saved.rows
                /\ status' = [status EXCEPT ![r] = 200]
                /\ response' = [response EXCEPT ![r] = <<a>>]

\* analyze_domain returns a: to the code that awaited it directly, or to the
\* handler that called it
AnalysisReturned(r, a) ==
    IF request[r].entry = "analyze_domain"
    THEN /\ analysis' = [analysis EXCEPT ![r] = <<a>>]
         /\ pc' = [pc EXCEPT ![r] = "done"]
         /\ UNCHANGED <<status, response, domain_reports>>
    ELSE Answered(r, a)

\* `await verify_domain(domain)`, called on its own
await_verify_domain(r, domain) ==
    /\ Arrives(r)
    /\ request' = [request EXCEPT ![r] =
                      [NoRequest EXCEPT !.entry = "verify_domain", !.domain = domain]]
    /\ StartVerify(r)
    /\ UNCHANGED <<dns, provider_patterns, domain_reports, cancelling, apex, semaphore,
                   probes, insights, analysis, response, queries>>

\* `await analyze_domain(domain, include_subdomains=..., wordlist=...,
\* max_concurrency=...)`: it runs to the asyncio.gather of verify_domain
analyze_domain(r, domain, include_subdomains, wordlist, max_concurrency) ==
    /\ Arrives(r)
    /\ request' = [request EXCEPT ![r] =
                      [entry |-> "analyze_domain", domain |-> domain,
                       include_subdomains |-> include_subdomains, wordlist |-> wordlist,
                       max_concurrency |-> max_concurrency]]
    /\ StartVerify(r)
    /\ UNCHANGED <<dns, provider_patterns, domain_reports, cancelling, apex, semaphore,
                   probes, insights, analysis, response, queries>>

\* POST /api/lookup
lookup_domain(r, domain) ==
    /\ Routed
    /\ Arrives(r)
    /\ request' = [request EXCEPT ![r] =
                      [NoRequest EXCEPT !.entry = "lookup_domain", !.domain = Lower(domain)]]
    /\ IF ~DomainPattern(domain) THEN Reject(r) ELSE StartVerify(r)
    /\ UNCHANGED <<dns, provider_patterns, domain_reports, cancelling, apex, semaphore,
                   probes, insights, analysis, response, queries>>

\* GET /api/domains/{domain}
get_domain_analysis(r, domain, include_subdomains, wordlist, max_concurrency) ==
    /\ Routed
    /\ Arrives(r)
    /\ request' = [request EXCEPT ![r] =
                      [entry |-> "get_domain_analysis", domain |-> Lower(domain),
                       include_subdomains |-> include_subdomains, wordlist |-> wordlist,
                       max_concurrency |-> max_concurrency]]
    /\ IF max_concurrency < CapMin \/ max_concurrency > CapMax THEN Reject(r)
       ELSE StartVerify(r)
    /\ UNCHANGED <<dns, provider_patterns, domain_reports, cancelling, apex, semaphore,
                   probes, insights, analysis, response, queries>>

\* GET /api/reports/{domain}
get_report(r, domain) ==
    /\ Routed
    /\ Arrives(r)
    /\ request' = [request EXCEPT ![r] =
                      [entry |-> "get_report", domain |-> Lower(domain),
                       include_subdomains |-> TRUE, wordlist |-> "",
                       max_concurrency |-> CapDefault]]
    /\ IF fetch_report_by_domain(Lower(domain)) # {}
       THEN /\ \E cached \in fetch_report_by_domain(Lower(domain)) :
                   response' = [response EXCEPT ![r] = <<_build_domain_analysis(cached)>>]
            /\ status' = [status EXCEPT ![r] = 200]
            /\ pc' = [pc EXCEPT ![r] = "done"]
            /\ UNCHANGED verify_tasks
       ELSE StartVerify(r) /\ UNCHANGED response
    /\ UNCHANGED <<dns, provider_patterns, domain_reports, cancelling, apex, semaphore,
                   probes, insights, analysis, queries>>

(***************************************************************************)
(* The callbacks of the event loop                                         *)
(***************************************************************************)

\* A verify_domain task runs its first step: _resolve hands its query to the
\* executor and suspends.
VerifyTaskStarted(r, i) ==
    /\ ~cancelling[r]
    /\ CanStart(verify_tasks[r], i)
    /\ verify_tasks' = [verify_tasks EXCEPT ![r][i] = "pending"]
    /\ queries' = [queries EXCEPT ![r] = @ \cup {<<request[r].domain, VERIFY_TYPES[i]>>}]
    /\ UNCHANGED <<dns, provider_patterns, domain_reports, request, pc, cancelling, apex,
                   semaphore, probes, insights, analysis, status, response>>

\* The executor finishes the query of one verify_domain task and the task
\* ends.  asyncio.gather completes when the three have ended; the caller is
\* resumed in a later iteration of the event loop (VerifyResumed).
VerifyTaskDone(r, i) ==
    /\ ~cancelling[r]
    /\ CanComplete(verify_tasks[r], i)
    /\ verify_tasks' = [verify_tasks EXCEPT ![r][i] = "done"]
    /\ UNCHANGED <<dns, provider_patterns, domain_reports, request, pc, cancelling, apex,
                   semaphore, probes, insights, analysis, status, response, queries>>

\* verify_domain is resumed with the three results and returns: its direct
\* caller has the boolean, lookup_domain answers; analyze_domain returns its
\* not-found response or calls gather_dns_records for the apex, which creates
\* its tasks and suspends.
VerifyResumed(r) ==
    /\ pc[r] = "verify"
    /\ ~cancelling[r]
    /\ \A i \in DOMAIN verify_tasks[r] : verify_tasks[r][i] = "done"
    /\ IF request[r].entry = "verify_domain"
       THEN /\ response' = [response EXCEPT ![r] = <<verify_domain(request[r].domain)>>]
            /\ pc' = [pc EXCEPT ![r] = "done"]
            /\ UNCHANGED <<apex, analysis, status, domain_reports>>
       ELSE IF request[r].entry = "lookup_domain"
       THEN /\ response' = [response EXCEPT ![r] =
                   <<[domain |-> request[r].domain,
                      exists |-> verify_domain(request[r].domain),
                      message |-> IF verify_domain(request[r].domain) THEN "Domain verified."
                                  ELSE "We could not verify this domain."]>>]
            /\ status' = [status EXCEPT ![r] = 200]
            /\ pc' = [pc EXCEPT ![r] = "done"]
            /\ UNCHANGED <<apex, analysis, domain_reports>>
       ELSE IF ~verify_domain(request[r].domain)
       THEN /\ AnalysisReturned(r, NotFoundAnalysis(request[r].domain))
            /\ UNCHANGED apex
       ELSE /\ apex' = [apex EXCEPT ![r] = StartedGather]
            /\ pc' = [pc EXCEPT ![r] = "apex"]
            /\ UNCHANGED <<analysis, status, response, domain_reports>>
    /\ UNCHANGED <<dns, provider_patterns, request, cancelling, verify_tasks, semaphore,
                   probes, insights, queries>>

\* A task of the apex gather_dns_records runs its first step and its query is
\* in the executor.  A task that gather_dns_records does not await goes on
\* when the call is being cancelled, and after it was.
ApexTaskStarted(r, i) ==
    /\ CanStart(apex[r].tasks, i)
    /\ ~(cancelling[r] /\ pc[r] = "apex" /\ i = apex[r].idx)
    /\ apex' = [apex EXCEPT ![r].tasks[i] = "pending"]
    /\ queries' = [queries EXCEPT ![r] = @ \cup {<<request[r].domain, RECORD_TYPES[i]>>}]
    /\ UNCHANGED <<dns, provider_patterns, domain_reports, request, pc, cancelling,
                   verify_tasks, semaphore, probes, insights, analysis, status, response>>

\* The executor finishes the query of one task of the apex gather_dns_records
\* and the task ends.  If it is the task awaited, gather_dns_records is
\* resumed in a later iteration of the event loop (ApexResumed).
ApexTaskDone(r, i) ==
    /\ CanComplete(apex[r].tasks, i)
    /\ ~(cancelling[r] /\ pc[r] = "apex" /\ i = apex[r].idx)
    /\ apex' = [apex EXCEPT ![r].tasks[i] = "done"]
    /\ UNCHANGED <<dns, provider_patterns, domain_reports, request, pc, cancelling,
                   verify_tasks, semaphore, probes, insights, analysis, status, response,
                   queries>>

\* The apex gather_dns_records is resumed at `await task`.  When it returns,
\* analyze_domain classifies the apex and either returns or calls
\* _enumerate_subdomains, which creates the probe tasks and suspends in
\* asyncio.gather (an empty gather is done at once).
ApexResumed(r) ==
    /\ pc[r] = "apex"
    /\ ~cancelling[r]
    /\ Ready(apex[r])
    /\ LET g == Resume(apex[r], request[r].domain)
       IN  /\ apex' = [apex EXCEPT ![r] = g]
           /\ IF ~g.raised /\ ~GatherReturned(g)
              THEN UNCHANGED <<pc, semaphore, probes, analysis, status, response,
                               domain_reports>>
              ELSE IF g.raised
              THEN Fail(r) /\ UNCHANGED <<semaphore, probes>>
              ELSE IF request[r].entry = "gather_dns_records"
              THEN /\ pc' = [pc EXCEPT ![r] = "gathered"]
                   /\ UNCHANGED <<semaphore, probes, analysis, status, response,
                                  domain_reports>>
              ELSE IF request[r].entry = "analyze_records"
              THEN /\ response' = [response EXCEPT ![r] =
                          <<[providers |-> _classify_provider(Get(g.results, "MX"),
                                                              Get(g.results, "TXT")),
                             networks |-> _detect_networks(provider_patterns, g.results)]>>]
                   /\ pc' = [pc EXCEPT ![r] = "classified"]
                   /\ UNCHANGED <<semaphore, probes, analysis, status, domain_reports>>
              ELSE IF ~request[r].include_subdomains
                      \/ EnumCandidates(request[r].wordlist) = <<>>
              THEN /\ AnalysisReturned(r, FoundAnalysis(request[r].domain, g.results,
                                                        EnumResult(<<>>)))
                   /\ UNCHANGED <<semaphore, probes>>
              ELSE /\ semaphore' = [semaphore EXCEPT ![r] =
                          [value |-> request[r].max_concurrency, waiters |-> <<>>]]
                   /\ probes' = [probes EXCEPT ![r] =
                          CreatedProbes(EnumCandidates(request[r].wordlist),
                                        request[r].domain)]
                   /\ pc' = [pc EXCEPT ![r] = "enum"]
                   /\ UNCHANGED <<analysis, status, response, domain_reports>>
    /\ UNCHANGED <<dns, provider_patterns, request, cancelling, verify_tasks, insights,
                   queries>>

\* A probe task runs its first step, the probes in the order they were
\* created.
ProbeStarted(r, p) ==
    /\ pc[r] = "enum"
    /\ ~cancelling[r]
    /\ p \in DOMAIN probes[r]
    /\ probes[r][p].state = "created"
    /\ \A q \in 1..(p - 1) : probes[r][q].state # "created"
    /\ LET started == StartProbe([semaphore |-> semaphore[r], probes |-> probes[r],
                                  cancel |-> cancelling[r]], p)
       IN  /\ semaphore' = [semaphore EXCEPT ![r] = started.semaphore]
           /\ probes' = [probes EXCEPT ![r] = started.probes]
    /\ UNCHANGED <<dns, provider_patterns, domain_reports, request, pc, cancelling,
                   verify_tasks, apex, insights, analysis, status, response, queries>>

\* the i-th task of probe p is the next task of the enumeration to run its
\* first step: the probes created together have all run theirs, and so have
\* the tasks of the probes before p
NextTask(r, p, i) ==
    /\ p \in DOMAIN probes[r]
    /\ CanStart(probes[r][p].g.tasks, i)
    /\ \A q \in DOMAIN probes[r] : probes[r][q].state # "created"
    /\ \A q \in 1..(p - 1) : ~Unstarted(probes[r][q].g.tasks)

\* the i-th task of probe p is the one its gather_dns_records awaits while
\* the probe is being cancelled
AwaitedByCancelled(r, p, i) ==
    /\ cancelling[r]
    /\ probes[r][p].state = "inside"
    /\ i = probes[r][p].g.idx

\* A task of a probe's gather_dns_records runs its first step and its query
\* is in the executor.
ProbeTaskStarted(r, p, i) ==
    /\ NextTask(r, p, i)
    /\ ~AwaitedByCancelled(r, p, i)
    /\ probes' = [probes EXCEPT ![r][p].g.tasks[i] = "pending"]
    /\ queries' = [queries EXCEPT ![r] = @ \cup {<<probes[r][p].fqdn, RECORD_TYPES[i]>>}]
    /\ UNCHANGED <<dns, provider_patterns, domain_reports, request, pc, cancelling,
                   verify_tasks, apex, semaphore, insights, analysis, status, response>>

\* The executor finishes the query of one task of a probe's
\* gather_dns_records and the task ends.  The probes that took a permit in
\* their first step started their tasks in one iteration of the event loop,
\* before any of these queries can have completed.
ProbeTaskDone(r, p, i) ==
    /\ p \in DOMAIN probes[r]
    /\ CanComplete(probes[r][p].g.tasks, i)
    /\ \A q \in DOMAIN probes[r] :
           q <= request[r].max_concurrency => ~Unstarted(probes[r][q].g.tasks)
    /\ ~AwaitedByCancelled(r, p, i)
    /\ probes' = [probes EXCEPT ![r][p].g.tasks[i] = "done"]
    /\ UNCHANGED <<dns, provider_patterns, domain_reports, request, pc, cancelling,
                   verify_tasks, apex, semaphore, insights, analysis, status, response,
                   queries>>

\* A probe is resumed in its gather_dns_records at `await task`.  When
\* gather_dns_records returns, the probe gives its permit back (the first
\* waiter is woken), appends its insight and ends.
ProbeResumed(r, p) ==
    /\ ~cancelling[r]
    /\ p \in DOMAIN probes[r]
    /\ probes[r][p].state = "inside"
    /\ Ready(probes[r][p].g)
    /\ LET g == Resume(probes[r][p].g, probes[r][p].fqdn)
           left == Release([semaphore |-> semaphore[r],
                            probes |-> [probes[r] EXCEPT ![p].g = g,
                                           ![p].state = IF g.raised THEN "failed"
                                                        ELSE "done"],
                            cancel |-> cancelling[r]])
       IN  IF ~g.raised /\ ~GatherReturned(g)
           THEN /\ probes' = [probes EXCEPT ![r][p].g = g]
                /\ UNCHANGED <<pc, semaphore, insights, analysis, status, response,
                               domain_reports>>
           ELSE /\ semaphore' = [semaphore EXCEPT ![r] = left.semaphore]
                /\ probes' = [probes EXCEPT ![r] = left.probes]
                /\ IF g.raised
                   THEN /\ UNCHANGED insights
                        /\ IF pc[r] = "enum" THEN Fail(r)
                           ELSE UNCHANGED <<pc, analysis, status, response, domain_reports>>
                   ELSE /\ insights' = [insights EXCEPT ![r] =
                               ProbeInsights(@, probes[r][p].fqdn, g.results)]
                        /\ UNCHANGED <<pc, analysis, status, response, domain_reports>>
    /\ UNCHANGED <<dns, provider_patterns, request, cancelling, verify_tasks, apex, queries>>

\* A probe woken in acquire() is resumed: it has its permit, leaves the queue
\* and calls gather_dns_records, which creates its tasks and suspends.
ProbeAdmitted(r, p) ==
    /\ ~cancelling[r]
    /\ p \in DOMAIN probes[r]
    /\ probes[r][p].state = "woken"
    /\ LET entered == Acquired([semaphore |-> semaphore[r],
                                probes |-> [probes[r] EXCEPT ![p].state = "inside",
                                                             ![p].g = StartedGather],
                                cancel |-> cancelling[r]], p)
       IN  /\ semaphore' = [semaphore EXCEPT ![r] = entered.semaphore]
           /\ probes' = [probes EXCEPT ![r] = entered.probes]
    /\ UNCHANGED <<dns, provider_patterns, domain_reports, request, pc, cancelling,
                   verify_tasks, apex, insights, analysis, status, response, queries>>

\* Every probe has ended: asyncio.gather completes, _enumerate_subdomains is
\* resumed, sorts and returns, and analyze_domain returns.
EnumResumed(r) ==
    /\ pc[r] = "enum"
    /\ ~cancelling[r]
    /\ probes[r] # <<>>
    /\ \A p \in DOMAIN probes[r] : probes[r][p].state = "done"
    /\ insights' = [insights EXCEPT ![r] = EnumResult(@)]
    /\ AnalysisReturned(r, FoundAnalysis(request[r].domain, apex[r].results,
                                         EnumResult(insights[r])))
    /\ UNCHANGED <<dns, provider_patterns, request, cancelling, verify_tasks, apex,
                   semaphore, probes, queries>>

(***************************************************************************)
(* Cancellation                                                            *)
(***************************************************************************)

\* Task.cancel() is called on the task of call r while it is suspended in
\* verify_domain, gather_dns_records or _enumerate_subdomains.  The call ends
\* nothing by itself.  When what the task awaits is done already, the task is
\* marked and the CancelledError is thrown into it at the resumption that is
\* scheduled (Cancelled); nothing else is cancelled.  Otherwise the
\* cancellation is passed to what is awaited: asyncio.gather passes it to
\* every child that is not done, a _probe to what it awaits, and each of them
\* ends in a later callback.
Cancel(r) ==
    /\ pc[r] \in {"verify", "apex", "enum"}
    /\ ~cancelling[r]
    /\ cancelling' = [cancelling EXCEPT ![r] = TRUE]
    /\ UNCHANGED <<dns, provider_patterns, domain_reports, request, pc, verify_tasks, apex,
                   semaphore, probes, insights, analysis, status, response, queries>>

\* A task of verify_domain ends cancelled: one that had not run, at its first
\* step, its query never issued, or one whose query was in the executor (the
\* result is dropped when it comes).
VerifyTaskCancelled(r, i) ==
    /\ cancelling[r]
    /\ pc[r] = "verify"
    /\ NextCancelled(verify_tasks[r], i)
    /\ verify_tasks' = [verify_tasks EXCEPT ![r][i] = "cancelled"]
    /\ UNCHANGED <<dns, provider_patterns, domain_reports, request, pc, cancelling, apex,
                   semaphore, probes, insights, analysis, status, response, queries>>

\* The task the apex gather_dns_records awaits ends cancelled.  The five
\* other tasks are not awaited and nothing cancels them.
ApexTaskCancelled(r) ==
    /\ cancelling[r]
    /\ pc[r] = "apex"
    /\ Awaiting(apex[r])
    /\ apex[r].tasks[apex[r].idx] = "pending" \/ CanStart(apex[r].tasks, apex[r].idx)
    /\ apex' = [apex EXCEPT ![r].tasks[apex[r].idx] = "cancelled"]
    /\ UNCHANGED <<dns, provider_patterns, domain_reports, request, pc, cancelling,
                   verify_tasks, semaphore, probes, insights, analysis, status, response,
                   queries>>

\* The task the gather_dns_records of probe p awaits ends cancelled.
ProbeTaskCancelled(r, p) ==
    /\ cancelling[r]
    /\ p \in DOMAIN probes[r]
    /\ probes[r][p].state = "inside"
    /\ Awaiting(probes[r][p].g)
    /\ \/ probes[r][p].g.tasks[probes[r][p].g.idx] = "pending"
       \/ NextTask(r, p, probes[r][p].g.idx)
    /\ probes' = [probes EXCEPT ![r][p].g.tasks[probes[r][p].g.idx] = "cancelled"]
    /\ UNCHANGED <<dns, provider_patterns, domain_reports, request, pc, cancelling,
                   verify_tasks, apex, semaphore, insights, analysis, status, response,
                   queries>>

\* The CancelledError reaches probe p and ends it.  A probe that has not run
\* ends at its first step, which comes before any other probe is resumed.  One in acquire() leaves the queue, and gives back
\* the permit if it had been handed one.  One inside gather_dns_records, when
\* the task it awaits has ended (cancelled, or done before the cancellation),
\* re-raises (lines 89-90) and leaves `async with semaphore`: release().
ProbeCancelled(r, p) ==
    /\ cancelling[r]
    /\ p \in DOMAIN probes[r]
    /\ LET s == [semaphore |-> semaphore[r],
                 probes |-> [probes[r] EXCEPT ![p].state = "cancelled"],
                 cancel |-> cancelling[r]]
           left == IF probes[r][p].state = "created" THEN s
                   ELSE IF probes[r][p].state = "inside" THEN Release(s)
                   ELSE CancelledInAcquire([s EXCEPT !.probes = probes[r]], p)
       IN  /\ \/ probes[r][p].state = "created"
              \/ probes[r][p].state \in {"waiting", "woken"}
              \/ probes[r][p].state = "inside" /\ ~Awaiting(probes[r][p].g)
           /\ \A q \in DOMAIN probes[r] : probes[r][q].state = "created" => p <= q
           /\ semaphore' = [semaphore EXCEPT ![r] = left.semaphore]
           /\ probes' = [probes EXCEPT ![r] = [left.probes EXCEPT ![p].state = "cancelled"]]
    /\ UNCHANGED <<dns, provider_patterns, domain_reports, request, pc, cancelling,
                   verify_tasks, apex, insights, analysis, status, response, queries>>

\* every task the cancellation of call r was passed to has ended (none, when
\* what the call awaited was done at cancel()): the resumption of the task of
\* the call is scheduled
Delivered(r) ==
    \/ pc[r] = "verify"
       /\ \A i \in DOMAIN verify_tasks[r] : verify_tasks[r][i] \in {"done", "cancelled"}
    \/ pc[r] = "apex" /\ ~Awaiting(apex[r])
    \/ pc[r] = "enum"
       /\ \A p \in DOMAIN probes[r] : probes[r][p].state \in {"done", "failed", "cancelled"}

\* The CancelledError reaches the task of call r, which ends cancelled: the
\* cancellation is raised to whoever awaits the call.
Cancelled(r) ==
    /\ cancelling[r]
    /\ Delivered(r)
    /\ pc' = [pc EXCEPT ![r] = "cancelled"]
    /\ cancelling' = [cancelling EXCEPT ![r] = FALSE]
    /\ UNCHANGED <<dns, provider_patterns, domain_reports, request, verify_tasks, apex,
                   semaphore, probes, insights, analysis, status, response, queries>>

(***************************************************************************)
(* The event loop                                                          *)
(***************************************************************************)

\* a task of call r runs its first step
TaskStarts(r) ==
    \/ \E i \in DOMAIN VERIFY_TYPES : VerifyTaskStarted(r, i)
    \/ \E i \in DOMAIN RECORD_TYPES : ApexTaskStarted(r, i)
    \/ \E p \in DOMAIN probes[r], i \in DOMAIN RECORD_TYPES : ProbeTaskStarted(r, p, i)
    \/ \E p \in DOMAIN probes[r] : ProbeStarted(r, p)

\* the executor finishes a query of call r
TaskCompletes(r) ==
    \/ \E i \in DOMAIN VERIFY_TYPES : VerifyTaskDone(r, i)
    \/ \E i \in DOMAIN RECORD_TYPES : ApexTaskDone(r, i)
    \/ \E p \in DOMAIN probes[r], i \in DOMAIN RECORD_TYPES : ProbeTaskDone(r, p, i)

\* the event loop resumes a coroutine of call r whose resumption is scheduled
Resumed(r) ==
    \/ VerifyResumed(r)
    \/ ApexResumed(r)
    \/ \E p \in DOMAIN probes[r] : ProbeResumed(r, p)
    \/ \E p \in DOMAIN probes[r] : ProbeAdmitted(r, p)
    \/ EnumResumed(r)

\* the cancellation of call r is delivered to a task
CancelDelivered(r) ==
    \/ \E i \in DOMAIN VERIFY_TYPES : VerifyTaskCancelled(r, i)
    \/ ApexTaskCancelled(r)
    \/ \E p \in DOMAIN probes[r] : ProbeTaskCancelled(r, p)
    \/ \E p \in DOMAIN probes[r] : ProbeCancelled(r, p)
    \/ Cancelled(r)

\* the names analyze_domain and verify_domain are called with
CallDomains == {<<"a", ".", "i", "o">>, <<"b", ".", "i", "o">>}

\* the max_concurrency values analyze_domain is called with
CallCaps == CapMin..MaxCap

\* One call of analyze_domain or of verify_domain from its start to its end.
\* Calls share no state (each has its own tasks, semaphore and lists; the
\* provider table is only read), so what holds of one holds of each of those
\* running at the same time.
Next ==
    \/ \E d \in CallDomains : await_verify_domain(1, d)
    \/ \E d \in CallDomains, s \in BOOLEAN, w \in WordlistParams, k \in CallCaps :
           analyze_domain(1, d, s, w, k)
    \/ TaskStarts(1)
    \/ TaskCompletes(1)
    \/ Resumed(1)
    \/ Cancel(1)
    \/ CancelDelivered(1)

Spec == Init /\ [][Next]_vars

(***************************************************************************)
(* verify_domain over every combination of resolver replies                *)
(***************************************************************************)

\* the replies a query is given: no rrset, an answer (unsorted, with a
\* trailing dot and a value that repeats once the dot is stripped), and each
\* exception resolver.resolve raises
ReplySamples ==
    {Answer(<<>>), Answer(<<<<"b", ".">>, <<"a">>, <<"b">>>>), Failure("NXDOMAIN"),
     Failure("NoNameservers"), Failure("NoAnswer"), Failure("DNSException"),
     Failure("Exception")}

\* a zone of one name from its replies by record type
ZoneOf(domain, replies) ==
    [q \in {<<domain, t>> : t \in DOMAIN replies} |-> replies[q[2]]]

LookupZones ==
    {ZoneOf(<<"a", ".", "i", "o">>, r) :
        r \in {soa_a_mx @@ ns :
                  soa_a_mx \in [{"SOA", "A", "MX"} -> ReplySamples],
                  ns \in [{"NS"} -> {Answer(<<<<"n", "s", ".", "a", ".", "i", "o", ".">>>>), Failure("NXDOMAIN")}]}}

InitLookup ==
    /\ dns \in LookupZones
    /\ provider_patterns = ProviderTable
    /\ Idle

NextLookup ==
    \/ await_verify_domain(1, <<"a", ".", "i", "o">>)
    \/ \E i \in DOMAIN VERIFY_TYPES : VerifyTaskStarted(1, i)
    \/ \E i \in DOMAIN VERIFY_TYPES : VerifyTaskDone(1, i)
    \/ VerifyResumed(1)
    \/ Cancel(1)
    \/ \E i \in DOMAIN VERIFY_TYPES : VerifyTaskCancelled(1, i)
    \/ Cancelled(1)

SpecLookup == InitLookup /\ [][NextLookup]_vars

(***************************************************************************)
(* gather_dns_records as a function of the six replies                     *)
(***************************************************************************)

RecordSamples ==
    {Answer(<<>>), Answer(<<<<"b", ".">>, <<"a">>, <<"b">>>>), Answer(<<<<".">>>>),
     Failure("NXDOMAIN"), Failure("Exception")}

\* A, AAAA and MX take every sample; TXT, NS and CNAME take one sample together
RecordZones ==
    {ZoneOf(<<"a", ".", "i", "o">>, r) :
        r \in {f @@ [t \in {"TXT", "NS", "CNAME"} |-> x] :
                  f \in [{"A", "AAAA", "MX"} -> RecordSamples], x \in RecordSamples}}

InitRecords ==
    /\ dns \in RecordZones
    /\ provider_patterns = ProviderTable
    /\ Idle

\* gather_dns_records(domain) called: lines 83-84 create the six tasks, and
\* the loop suspends at the first `await task`
gather_dns_records(r, domain) ==
    /\ Arrives(r)
    /\ request' = [request EXCEPT ![r] =
                      [NoRequest EXCEPT !.entry = "gather_dns_records", !.domain = domain]]
    /\ apex' = [apex EXCEPT ![r] = StartedGather]
    /\ pc' = [pc EXCEPT ![r] = "apex"]
    /\ UNCHANGED <<dns, provider_patterns, domain_reports, cancelling, verify_tasks,
                   semaphore, probes, insights, analysis, status, response, queries>>

\* the callbacks of a gather_dns_records awaited on its own
GatherLoop(r) ==
    \/ \E i \in DOMAIN RECORD_TYPES : ApexTaskStarted(r, i)
    \/ \E i \in DOMAIN RECORD_TYPES : ApexTaskDone(r, i)
    \/ ApexResumed(r)
    \/ Cancel(r)
    \/ ApexTaskCancelled(r)
    \/ Cancelled(r)

NextRecords ==
    \/ gather_dns_records(1, <<"a", ".", "i", "o">>)
    \/ GatherLoop(1)

SpecRecords == InitRecords /\ [][NextRecords]_vars

(***************************************************************************)
(* analyze_domain lines 213-215 over chosen apex RecordSets: the apex is   *)
(* gathered, classified and matched against the provider table             *)
(***************************************************************************)

\* the MX and TXT replies classified: hosts and texts with and without the
\* Google and Microsoft 365 markers, in upper and lower case
ClassifyMX ==
    {Answer(<<>>), Failure("Exception"),
     Answer(<<<<"1", " ", "A", "S", "P", "M", "X", ".", "b", ".">>>>), Answer(<<<<"1", " ", "G", "o", "o", "g", "l", "e", ".", "c", "o", "m">>>>),
     Answer(<<<<"1", " ", "m", ".", "o", "u", "t", "l", "o", "o", "k", ".", "c", "o", "m", ".">>>>), Answer(<<<<"1", " ", "x", ".", "p", "r", "o", "t", "e", "c", "t", "i", "o", "n", ".", "o", "u", "t", "l", "o", "o", "k", ".", "c", "o", "m">>>>),
     Answer(<<<<"1", " ", "m", "a", "i", "l", ".", "b">>>>), Answer(<<<<"1", " ", "a", "s", "p", "m", "x", ".", "b">>, <<"2", " ", "m", ".", "O", "u", "t", "l", "o", "o", "k", ".", "c", "o", "m">>>>)}

ClassifyTXT ==
    {Answer(<<>>), Answer(<<<<"g", "o", "o", "g", "l", "e", "-", "s", "i", "t", "e", "-", "v", "e", "r", "i", "f", "i", "c", "a", "t", "i", "o", "n", "=", "1">>>>),
     Answer(<<<<"v", "=", "s", "p", "f", "1", " ", "i", "n", "c", "l", "u", "d", "e", ":", "s", "p", "f", ".", "p", "r", "o", "t", "e", "c", "t", "i", "o", "n", ".", "o", "u", "t", "l", "o", "o", "k", ".", "c", "o", "m">>>>), Answer(<<<<"v", "=", "s", "p", "f", "1">>>>),
     Answer(<<<<"G", "o", "o", "g", "l", "e", "-", "S", "i", "t", "e", "-", "V", "e", "r", "i", "f", "i", "c", "a", "t", "i", "o", "n", "=", "1">>, <<"v", "=", "s", "p", "f", "1", " ", "i", "n", "c", "l", "u", "d", "e", ":", "S", "P", "F", ".", "p", "r", "o", "t", "e", "c", "t", "i", "o", "n", ".", "o", "u", "t", "l", "o", "o", "k", ".", "c", "o", "m">>>>),
     Answer(<<<<"g", "o", "o", "g", "l", "e">>>>), Answer(<<<<"o", "u", "t", "l", "o", "o", "k">>>>)}

ClassifyZones ==
    {ZoneOf(<<"a", ".", "i", "o">>, r) : r \in {mx @@ txt : mx \in [{"MX"} -> ClassifyMX],
                                               txt \in [{"TXT"} -> ClassifyTXT]}}

InitClassify ==
    /\ dns \in ClassifyZones
    /\ provider_patterns = ProviderTable
    /\ Idle

\* analyze_domain line 213 reached: gather_dns_records is called for the
\* apex; lines 214-215 run when it returns (ApexResumed) and leave the locals
\* providers and networks
analyze_records(r, domain) ==
    /\ Arrives(r)
    /\ request' = [request EXCEPT ![r] =
                      [NoRequest EXCEPT !.entry = "analyze_records", !.domain = domain]]
    /\ apex' = [apex EXCEPT ![r] = StartedGather]
    /\ pc' = [pc EXCEPT ![r] = "apex"]
    /\ UNCHANGED <<dns, provider_patterns, domain_reports, cancelling, verify_tasks,
                   semaphore, probes, insights, analysis, status, response, queries>>

NextAnalyze ==
    \/ analyze_records(1, <<"a", ".", "i", "o">>)
    \/ GatherLoop(1)

SpecClassify == InitClassify /\ [][NextAnalyze]_vars

\* _load_provider_patterns on the providers file: [exists, raw], raw the items
\* of the JSON object in order, each <<key, payload>>
RECURSIVE CompileProviders(_)
CompileProviders(raw) ==
    IF raw = <<>> THEN <<>>
    ELSE <<[name |-> Title(Replace(Head(raw)[1], "_", " ")),
            patterns |-> [ns |-> Get(Head(raw)[2], "ns"), mx |-> Get(Head(raw)[2], "mx"),
                          spf |-> Get(Head(raw)[2], "spf"), asn |-> Get(Head(raw)[2], "asn")]]>>
         \o CompileProviders(Tail(raw))

_load_provider_patterns(file) ==
    IF ~file.exists THEN <<>> ELSE CompileProviders(file.raw)

\* The providers files: none, an empty object, and one with a provider per
\* category, one with every category (its ASN pattern the regular expression
\* ".") and one with no pattern.
ProvidersFiles ==
    {[exists |-> FALSE, raw |-> <<>>],
     [exists |-> TRUE, raw |-> <<>>],
     [exists |-> TRUE, raw |->
        << <<<<"s", "p", "f">>, ("spf" :> <<<<"b">>>>)>>,
           <<<<"n", "s", "_", "o", "n", "e">>, ("ns" :> <<<<"a">>>>)>>,
           <<<<"m", "x", "1">>, ("mx" :> <<<<"A">>>>)>>,
           <<<<"n", "o", "n", "e">>, EmptyDict>>,
           <<<<"a", "s", "n">>, ("asn" :> <<<<"b">>>>)>>,
           <<<<"a", "l", "l">>, ("ns" :> <<<<"b">>>>) @@ ("mx" :> <<<<"b">>>>) @@ ("spf" :> <<<<"a">>>>) @@ ("asn" :> <<<<".">>>>)>> >>]}

\* the replies of each record type whose RecordSet is matched: none, a value
\* in lower case, a value in upper case
NetworkSamples == {Answer(<<>>), Answer(<<<<"a">>>>), Answer(<<<<"B">>>>)}

NetworkZones ==
    {ZoneOf(<<"a", ".", "i", "o">>, r) : r \in [{RECORD_TYPES[i] : i \in DOMAIN RECORD_TYPES} -> NetworkSamples]}

InitNetworks ==
    /\ dns \in NetworkZones
    /\ provider_patterns \in {_load_provider_patterns(f) : f \in ProvidersFiles}
    /\ Idle

SpecNetworks == InitNetworks /\ [][NextAnalyze]_vars

(***************************************************************************)
(* An analysis that is not cancelled, every query completing in the end    *)
(***************************************************************************)

NextLive ==
    \/ \E d \in CallDomains, s \in BOOLEAN, w \in WordlistParams, k \in CallCaps :
           analyze_domain(1, d, s, w, k)
    \/ TaskStarts(1)
    \/ TaskCompletes(1)
    \/ Resumed(1)

\* a query is outstanding: its task is pending in the executor.  TaskCompletes
\* is enabled in the states where one is and no first step is scheduled.
Outstanding ==
    \/ \E i \in DOMAIN verify_tasks[1] : verify_tasks[1][i] = "pending"
    \/ \E i \in DOMAIN apex[1].tasks : apex[1].tasks[i] = "pending"
    \/ \E p \in DOMAIN probes[1] : \E i \in DOMAIN probes[1][p].g.tasks :
           probes[1][p].g.tasks[i] = "pending"

\* a first step or a resumption is scheduled in the event loop.  TaskStarts or
\* Resumed is enabled exactly in the states where one is.
Scheduled ==
    \/ Unstarted(verify_tasks[1])
    \/ Unstarted(apex[1].tasks)
    \/ \E p \in DOMAIN probes[1] : probes[1][p].state = "created"
    \/ \E p \in DOMAIN probes[1] : Unstarted(probes[1][p].g.tasks)
    \/ pc[1] = "verify" /\ \A i \in DOMAIN verify_tasks[1] : verify_tasks[1][i] = "done"
    \/ pc[1] = "apex" /\ Ready(apex[1])
    \/ pc[1] = "enum" /\ \A p \in DOMAIN probes[1] : probes[1][p].state = "done"
    \/ \E p \in DOMAIN probes[1] : probes[1][p].state = "woken"
    \/ \E p \in DOMAIN probes[1] : probes[1][p].state = "inside" /\ Ready(probes[1][p].g)

\* Every query completes in the end: the resolver gives up after DNS_TIMEOUT
\* and the executor runs every query submitted, so no query stays outstanding
\* for ever.
QueriesComplete == []<>(~Outstanding)

\* The event loop runs every first step and every resumption it has scheduled.
LoopRuns == []<>(~Scheduled)

SpecLive == Init /\ [][NextLive]_vars /\ QueriesComplete /\ LoopRuns

(***************************************************************************)
(* Requests to the running service, served at the same time                *)
(***************************************************************************)

\* the max_concurrency values requested: in range, and the two nearest values
\* out of range
RequestCaps == {CapMin, CapMin - 1, CapMax + 1}

\* The callbacks of request r.  The requests of this specification are made
\* without include_subdomains, so their handlers create no probe: the
\* callbacks are those of the verify tasks, of the apex gather and of the
\* cancellation of the handler.
Loop(r) ==
    \/ \E i \in DOMAIN VERIFY_TYPES : VerifyTaskStarted(r, i)
    \/ \E i \in DOMAIN RECORD_TYPES : ApexTaskStarted(r, i)
    \/ \E i \in DOMAIN VERIFY_TYPES : VerifyTaskDone(r, i)
    \/ \E i \in DOMAIN RECORD_TYPES : ApexTaskDone(r, i)
    \/ VerifyResumed(r)
    \/ ApexResumed(r)
    \/ Cancel(r)
    \/ \E i \in DOMAIN VERIFY_TYPES : VerifyTaskCancelled(r, i)
    \/ ApexTaskCancelled(r)
    \/ Cancelled(r)

\* Up to MaxRequests requests, each taken while the handlers of the earlier
\* ones are suspended or after they have ended; the tasks a cancelled request
\* left behind go on while the later ones are served.
NextSequence ==
    \E r \in Requests :
        \/ \E d \in RequestDomains : lookup_domain(r, d)
        \/ \E d \in RequestDomains, k \in RequestCaps :
               get_domain_analysis(r, d, FALSE, "", k)
        \/ \E d \in RequestDomains \ {<<"A", ".", "i", "o">>} : get_report(r, d)
        \/ Loop(r)

SpecSequence == Init /\ [][NextSequence]_vars

(***************************************************************************)
(* Properties                                                              *)
(***************************************************************************)

\* the states of every resolve task call r has created so far
TaskStates(r) ==
    {verify_tasks[r][i] : i \in DOMAIN verify_tasks[r]}
    \cup {apex[r].tasks[i] : i \in DOMAIN apex[r].tasks}
    \cup UNION {{probes[r][p].g.tasks[i] : i \in DOMAIN probes[r][p].g.tasks} :
                   p \in DOMAIN probes[r]}

\* C1: with max_concurrency = k, the number of probes admitted by the
\* semaphore and not yet finished (inside gather_dns_records, or handed a
\* permit in acquire() and about to enter it) is at most k in every state.
C1_InFlightWithinCap ==
    \A r \in Requests :
        Cardinality(Inside(probes[r]) \cup Woken(probes[r])) <= request[r].max_concurrency

\* C1 witness: the cap binds: k > 1 probes are inside and another one waits.
C1_CapBinds ==
    \E r \in Requests :
        /\ request[r].max_concurrency > 1
        /\ Cardinality(Inside(probes[r])) = request[r].max_concurrency
        /\ \E p \in DOMAIN probes[r] : probes[r][p].state = "waiting"

\* C2: once the cancellation of the analysis has been raised to the caller,
\* every resolve task and every probe of the analysis has ended: none is
\* still to run or running (so none can complete normally afterwards).
C2_CancellationReachesAll ==
    \A r \in Requests :
        pc[r] = "cancelled" =>
            /\ TaskStates(r) \cap {"created", "pending"} = {}
            /\ \A p \in DOMAIN probes[r] :
                   probes[r][p].state \notin {"created", "waiting", "woken", "inside"}

\* C3: for a domain that verify_domain finds not to exist, analyze_domain
\* returns exists = false, empty apex records, providers Unknown/Unknown with
\* empty evidence, empty networks and no subdomains, and no query beyond the
\* three existence queries is issued: no gather_dns_records, no probe.
C3_NotFoundIsEmptyAndQuiet ==
    \A r \in Requests :
        (analysis[r] # <<>> /\ ~analysis[r][1].exists) =>
            /\ analysis[r][1].domain = request[r].domain
            /\ analysis[r][1].apex_records = EmptyDict
            /\ analysis[r][1].providers =
                   [email |-> "Unknown", productivity |-> "Unknown", evidence |-> EmptyDict]
            /\ analysis[r][1].subdomains = <<>>
            /\ "networks" \in DOMAIN analysis[r][1]
            /\ analysis[r][1].networks = <<>>
            /\ queries[r] = QueriesFor(request[r].domain, VERIFY_TYPES)
            /\ apex[r] = NoGather
            /\ probes[r] = <<>>

\* whether the resolver answers the query <<name, record_type>> with records
HasAnswer(name, record_type) ==
    /\ ResolverReply(name, record_type).kind = "answer"
    /\ ResolverReply(name, record_type).rdata # <<>>

\* C4: for every combination of outcomes of the SOA, A and MX queries,
\* verify_domain returns a boolean without raising, and it is true exactly
\* when one of the three queries returned a non-empty list; an NS answer alone
\* never makes it true.
C4_VerifyIffSomeAnswer ==
    \A r \in Requests :
        (request[r].entry = "verify_domain" /\ pc[r] \notin {"idle", "verify", "cancelled"}) =>
            /\ pc[r] = "done"
            /\ response[r] # <<>>
            /\ response[r][1] \in BOOLEAN
            /\ response[r][1] <=>
                   \E i \in DOMAIN VERIFY_TYPES :
                       HasAnswer(request[r].domain, VERIFY_TYPES[i])

\* C4 witness: verify_domain returned true although one of the three queries
\* raised an exception that is no DNSException.
C4_TrueDespiteRaise ==
    \E r \in Requests :
        /\ request[r].entry = "verify_domain"
        /\ pc[r] = "done"
        /\ response[r] = <<TRUE>>
        /\ \E i \in DOMAIN VERIFY_TYPES :
               ResolverReply(request[r].domain, VERIFY_TYPES[i]).kind = "Exception"

\* C5: the RecordSet gather_dns_records returns has keys among RECORD_TYPES,
\* every value list is non-empty and strictly ascending (sorted, no
\* duplicates), and a type is a key exactly when its query returned records.
C5_RecordSetWellFormed ==
    \A r \in Requests :
        pc[r] = "gathered" =>
            /\ GatherReturned(apex[r])
            /\ DOMAIN apex[r].results \subseteq Range(RECORD_TYPES)
            /\ \A t \in DOMAIN apex[r].results :
                   /\ apex[r].results[t] # <<>>
                   /\ \A i, j \in DOMAIN apex[r].results[t] :
                          i < j => StrLess(apex[r].results[t][i], apex[r].results[t][j])
            /\ \A t \in Range(RECORD_TYPES) :
                   t \in DOMAIN apex[r].results <=> HasAnswer(request[r].domain, t)

\* C5 witness: a RecordSet with a list of two values made from an unsorted
\* answer with a repeated value, one type absent because its query raised, one
\* absent because its answer was empty.
C5_SortedDedupedWithAbsentTypes ==
    \E r \in Requests :
        /\ pc[r] = "gathered"
        /\ \E t \in DOMAIN apex[r].results :
               /\ Len(apex[r].results[t]) = 2
               /\ Len(ResolverReply(request[r].domain, t).rdata) = 3
        /\ \E t \in Range(RECORD_TYPES) :
               /\ t \notin DOMAIN apex[r].results
               /\ ResolverReply(request[r].domain, t).kind = "Exception"
        /\ \E t \in Range(RECORD_TYPES) :
               /\ t \notin DOMAIN apex[r].results
               /\ ResolverReply(request[r].domain, t) = Answer(<<>>)

\* the RecordSet of a name as the resolver's replies determine it
RecordSetOf(name) ==
    [t \in {u \in Range(RECORD_TYPES) : HasAnswer(name, u)} |->
        Sorted({RStripDot(ResolverReply(name, t).rdata[i]) :
                    i \in DOMAIN ResolverReply(name, t).rdata})]

\* the fqdns of the candidates call r probes whose RecordSet is not empty,
\* ascending
AnsweringFqdns(r) ==
    LET candidates == EnumCandidates(request[r].wordlist)
    IN  Sorted({Fqdn(candidates[i], request[r].domain) : i \in
                   {j \in DOMAIN candidates :
                       RecordSetOf(Fqdn(candidates[j], request[r].domain)) # EmptyDict}})

\* call r has returned an analysis with enumeration
Enumerated(r) ==
    /\ pc[r] = "done"
    /\ analysis[r] # <<>>
    /\ analysis[r][1].exists
    /\ request[r].include_subdomains

\* C6: the list _enumerate_subdomains returns is ascending by fqdn and is the
\* same list for every order in which the probes complete: it is determined
\* by the wordlist and the resolver's replies alone.
C6_SortedWhateverCompletionOrder ==
    \A r \in Requests :
        Enumerated(r) =>
            LET subdomains == analysis[r][1].subdomains
            IN  /\ \A i, j \in DOMAIN subdomains :
                       i < j => StrLess(subdomains[i].fqdn, subdomains[j].fqdn)
                /\ [i \in DOMAIN subdomains |-> subdomains[i].fqdn] = AnsweringFqdns(r)
                /\ \A i \in DOMAIN subdomains :
                       subdomains[i].records = RecordSetOf(subdomains[i].fqdn)

\* C6 witness: two insights returned in ascending order for candidates the
\* wordlist has in descending order, the probes having run two at a time.
C6_TwoInsightsReordered ==
    \E r \in Requests :
        /\ Enumerated(r)
        /\ request[r].max_concurrency > 1
        /\ Len(analysis[r][1].subdomains) = 2
        /\ \E p, q \in DOMAIN probes[r] :
               /\ p < q
               /\ probes[r][p].fqdn = analysis[r][1].subdomains[2].fqdn
               /\ probes[r][q].fqdn = analysis[r][1].subdomains[1].fqdn

\* C7: a probe that has finished contributes exactly one insight, with fqdn
\* <candidate>.<domain> and the RecordSet gather_dns_records returned, when
\* that RecordSet is not empty, and no insight and no error when it is empty;
\* the insights list holds nothing else.
C7_InsightIffRecords ==
    \A r \in Requests :
        /\ \A p \in DOMAIN probes[r] :
               /\ probes[r][p].state # "failed"
               /\ probes[r][p].fqdn = probes[r][p].candidate \o <<".">> \o request[r].domain
               /\ probes[r][p].state = "done" =>
                      LET mine == {i \in DOMAIN insights[r] :
                                      insights[r][i].fqdn = probes[r][p].fqdn}
                      IN  IF probes[r][p].g.results = EmptyDict THEN mine = {}
                          ELSE /\ Cardinality(mine) = 1
                               /\ \A i \in mine :
                                      insights[r][i].records = probes[r][p].g.results
        /\ Len(insights[r]) =
               Cardinality({p \in DOMAIN probes[r] :
                               /\ probes[r][p].state = "done"
                               /\ probes[r][p].g.results # EmptyDict})

\* C7 witness: one probe finished with an empty RecordSet and one with records,
\* and the insights list holds the insight of the second only.
C7_OneKeptOneDiscarded ==
    \E r \in Requests :
        /\ Len(insights[r]) = 1
        /\ \E p, q \in DOMAIN probes[r] :
               /\ probes[r][p].state = "done" /\ probes[r][p].g.results = EmptyDict
               /\ probes[r][q].state = "done" /\ probes[r][q].g.results # EmptyDict
               /\ insights[r][1].fqdn = probes[r][q].fqdn

\* the candidates of a wordlist as the spec reads it: each line trimmed, blank
\* lines and lines whose trimmed text begins with "#" skipped
RECURSIVE TrimmedCandidates(_)
TrimmedCandidates(lines) ==
    IF lines = <<>> THEN <<>>
    ELSE (IF Strip(Head(lines)) # <<>> /\ Strip(Head(lines))[1] # "#"
          THEN <<Strip(Head(lines))>> ELSE <<>>) \o TrimmedCandidates(Tail(lines))

\* C8: the candidates probed are exactly the trimmed lines of the wordlist
\* that are neither blank nor comments: no candidate is empty, begins or ends
\* with whitespace, or begins with "#", and every other line is probed.
C8_CandidatesAreTrimmedNonComment ==
    \A r \in Requests :
        probes[r] # <<>> =>
            /\ \A p \in DOMAIN probes[r] :
                   /\ probes[r][p].candidate # <<>>
                   /\ probes[r][p].candidate[1] \notin Whitespace \cup {"#"}
                   /\ probes[r][p].candidate[Len(probes[r][p].candidate)] \notin Whitespace
            /\ [p \in DOMAIN probes[r] |-> probes[r][p].candidate] =
                   TrimmedCandidates(WordlistFiles[IF request[r].wordlist # ""
                                                   THEN request[r].wordlist
                                                   ELSE WORDLIST_DEFAULT])

\* C9: no resolver query is issued for a request whose domain fails the
\* domain pattern or whose max_concurrency is outside 1..100, on any of
\* lookup_domain, get_domain_analysis and get_report.
C9_MisuseRejectedBeforeQueries ==
    \A r \in Requests :
        (request[r].entry \in Handlers /\ queries[r] # {}) =>
            /\ DomainPattern(request[r].domain)
            /\ request[r].entry # "lookup_domain" =>
                   request[r].max_concurrency \in CapMin..CapMax

\* C10: a query that raises is local to its record type and a probe never
\* fails: no gather_dns_records raises, what it returns has a key for every
\* type answered with records whatever the other queries did, and once
\* analyze_domain has been called it does not fail, and the analysis it
\* returns has the insight of every candidate with records.
C10_FailureIsLocal ==
    \A r \in Requests :
        /\ pc[r] # "failed"
        /\ ~apex[r].raised
        /\ GatherReturned(apex[r]) => apex[r].results = RecordSetOf(request[r].domain)
        /\ \A p \in DOMAIN probes[r] :
               /\ ~probes[r][p].g.raised
               /\ probes[r][p].state # "failed"
               /\ probes[r][p].state = "done" =>
                      probes[r][p].g.results = RecordSetOf(probes[r][p].fqdn)
        /\ (pc[r] = "done" /\ request[r].entry = "analyze_domain") =>
               /\ analysis[r] # <<>>
               /\ \A p \in DOMAIN probes[r] :
                      /\ probes[r][p].state = "done"
                      /\ RecordSetOf(probes[r][p].fqdn) # EmptyDict =>
                             \E i \in DOMAIN analysis[r][1].subdomains :
                                 analysis[r][1].subdomains[i].fqdn = probes[r][p].fqdn

\* C10 witness: the analysis is returned with apex records although the NS
\* query of the apex raised, and with the insight of one candidate one of
\* whose queries raised, next to a candidate whose six queries all raised.
C10_ReturnedDespiteRaises ==
    \E r \in Requests :
        /\ Enumerated(r)
        /\ ResolverReply(request[r].domain, "NS").kind = "Exception"
        /\ analysis[r][1].apex_records # EmptyDict
        /\ \E p, q \in DOMAIN probes[r] :
               /\ \A t \in Range(RECORD_TYPES) :
                      ResolverReply(probes[r][p].fqdn, t).kind = "Exception"
               /\ ResolverReply(probes[r][q].fqdn, "A").kind = "Exception"
               /\ \E i \in DOMAIN analysis[r][1].subdomains :
                      analysis[r][1].subdomains[i].fqdn = probes[r][q].fqdn

\* whether some value of a list holds sub, case ignored
AnyHolds(values, sub) ==
    \E i \in DOMAIN values : Contains(Lower(values[i]), sub)

\* the flag usesGoogle of the spec for the MX and TXT lists
UsesGoogle(mx, txt) ==
    \/ AnyHolds(mx, <<"g", "o", "o", "g", "l", "e">>)
    \/ AnyHolds(mx, <<"a", "s", "p", "m", "x">>)
    \/ AnyHolds(txt, <<"g", "o", "o", "g", "l", "e", "-", "s", "i", "t", "e", "-", "v", "e", "r", "i", "f", "i", "c", "a", "t", "i", "o", "n">>)

\* the flag usesMicrosoft365 of the spec for the MX and TXT lists
UsesMicrosoft365(mx, txt) ==
    \/ AnyHolds(mx, <<"o", "u", "t", "l", "o", "o", "k">>)
    \/ AnyHolds(mx, <<"p", "r", "o", "t", "e", "c", "t", "i", "o", "n", ".", "o", "u", "t", "l", "o", "o", "k", ".", "c", "o", "m">>)
    \/ AnyHolds(txt, <<"s", "p", "f", ".", "p", "r", "o", "t", "e", "c", "t", "i", "o", "n", ".", "o", "u", "t", "l", "o", "o", "k", ".", "c", "o", "m">>)

\* C11: the email and productivity labels of _classify_provider are equal and
\* follow from the two flags alone: both give "Google Workspace + Office 365",
\* Google alone "Google Workspace", Microsoft alone "Office 365", neither
\* "Other / Unknown"; "Unknown" is never a label of the classifier.
C11_LabelFromFlags ==
    \A r \in Requests :
        pc[r] = "classified" =>
            LET mx == Get(apex[r].results, "MX")
                txt == Get(apex[r].results, "TXT")
                providers == response[r][1].providers
            IN  /\ providers.email = providers.productivity
                /\ providers.email # "Unknown"
                /\ providers.email =
                       IF UsesGoogle(mx, txt) /\ UsesMicrosoft365(mx, txt)
                       THEN "Google Workspace + Office 365"
                       ELSE IF UsesGoogle(mx, txt) THEN "Google Workspace"
                       ELSE IF UsesMicrosoft365(mx, txt) THEN "Office 365"
                       ELSE "Other / Unknown"

\* C11 witness: both flags set, one by an MX host and one by a TXT record, and
\* the combined label given.
C11_BothFlags ==
    \E r \in Requests :
        /\ pc[r] = "classified"
        /\ AnyHolds(Get(apex[r].results, "MX"), <<"a", "s", "p", "m", "x">>)
        /\ ~AnyHolds(Get(apex[r].results, "MX"), <<"o", "u", "t", "l", "o", "o", "k">>)
        /\ AnyHolds(Get(apex[r].results, "TXT"), <<"s", "p", "f", ".", "p", "r", "o", "t", "e", "c", "t", "i", "o", "n", ".", "o", "u", "t", "l", "o", "o", "k", ".", "c", "o", "m">>)
        /\ response[r][1].providers.email = "Google Workspace + Office 365"

\* C12: with an empty provider pattern table _detect_networks returns the
\* empty list for every RecordSet: the networks analyze_domain computes are
\* empty whatever records were gathered.
C12_NoTableNoNetworks ==
    \A r \in Requests :
        (provider_patterns = <<>> /\ pc[r] = "classified") =>
            /\ response[r] # <<>>
            /\ response[r][1].networks = <<>>

\* C12 witness: no provider table, a RecordSet with NS, MX, TXT and A records,
\* and the networks computed for it.
C12_RecordsButNoTable ==
    \E r \in Requests :
        /\ provider_patterns = <<>>
        /\ pc[r] = "classified"
        /\ {"NS", "MX", "TXT", "A"} \subseteq DOMAIN apex[r].results
        /\ response[r][1].networks = <<>>

\* whether some value of a list holds one of the patterns, case ignored
AnyMatch(values, patterns) ==
    \E j \in DOMAIN patterns : \E i \in DOMAIN values : Search(patterns[j], values[i])

\* the ASN source of a RecordSet: the values of the types other than NS, MX
\* and TXT when there are any, else the NS values when there are any, else
\* the MX values
AsnSource(records) ==
    LET others == {t \in DOMAIN records : t \notin {"NS", "MX", "TXT"}}
    IN  IF \E t \in others : records[t] # <<>>
        THEN CHOOSE flat \in [1..Cardinality(UNION {Range(records[t]) : t \in others})
                                 -> UNION {Range(records[t]) : t \in others}] :
                 Range(flat) = UNION {Range(records[t]) : t \in others}
        ELSE IF Get(records, "NS") # <<>> THEN Get(records, "NS")
        ELSE Get(records, "MX")

\* C14: the result of _detect_networks is sorted without duplicates, names
\* providers of the table only, and holds the name of a provider exactly when
\* its NS patterns match an NS value, or its MX patterns an MX value, or its
\* SPF patterns a TXT value, or its ASN patterns a value of the ASN source.
C14_NetworksAreTheMatchingProviders ==
    \A r \in Requests :
        pc[r] = "classified" =>
            LET networks == response[r][1].networks
                records == apex[r].results
            IN  /\ \A i, j \in DOMAIN networks : i < j => StrLess(networks[i], networks[j])
                /\ Range(networks) \subseteq
                       {provider_patterns[i].name : i \in DOMAIN provider_patterns}
                /\ \A i \in DOMAIN provider_patterns :
                       provider_patterns[i].name \in Range(networks) <=>
                           \/ AnyMatch(Get(records, "NS"), provider_patterns[i].patterns.ns)
                           \/ AnyMatch(Get(records, "MX"), provider_patterns[i].patterns.mx)
                           \/ AnyMatch(Get(records, "TXT"), provider_patterns[i].patterns.spf)
                           \/ AnyMatch(AsnSource(records), provider_patterns[i].patterns.asn)

\* C14 witness: a provider with ASN patterns only is detected from the NS
\* values, the RecordSet having no type other than NS, MX and TXT, next to a
\* provider detected by its NS patterns, the names in ascending order.
C14_AsnFromNameServers ==
    \E r \in Requests :
        /\ pc[r] = "classified"
        /\ DOMAIN apex[r].results \subseteq {"NS", "MX", "TXT"}
        /\ "NS" \in DOMAIN apex[r].results
        /\ Len(response[r][1].networks) >= 2
        /\ \E i \in DOMAIN provider_patterns :
               /\ provider_patterns[i].patterns.ns = <<>>
               /\ provider_patterns[i].patterns.mx = <<>>
               /\ provider_patterns[i].patterns.spf = <<>>
               /\ provider_patterns[i].name \in Range(response[r][1].networks)

\* C13: the analysis analyze_domain returns for an existing domain carries
\* the apex networks, equal to _detect_networks of the apex RecordSet, and
\* every insight in it carries the networks of its RecordSet, readable from
\* the returned object as save_analysis reads analysis.networks.
C13_NetworksCarried ==
    \A r \in Requests :
        (analysis[r] # <<>> /\ analysis[r][1].exists) =>
            /\ "networks" \in DOMAIN analysis[r][1]
            /\ analysis[r][1].networks =
                   _detect_networks(provider_patterns, analysis[r][1].apex_records)
            /\ \A i \in DOMAIN analysis[r][1].subdomains :
                   /\ "networks" \in DOMAIN analysis[r][1].subdomains[i]
                   /\ analysis[r][1].subdomains[i].networks =
                          _detect_networks(provider_patterns,
                                           analysis[r][1].subdomains[i].records)

\* C15: whenever a gather_dns_records has returned a RecordSet, each of the
\* six resolve tasks it started is done: it never returns with a task pending.
C15_ReturnsAfterAllTasks ==
    \A r \in Requests :
        /\ GatherReturned(apex[r]) =>
               \A i \in DOMAIN apex[r].tasks : apex[r].tasks[i] = "done"
        /\ \A p \in DOMAIN probes[r] :
               GatherReturned(probes[r][p].g) =>
                   \A i \in DOMAIN probes[r][p].g.tasks : probes[r][p].g.tasks[i] = "done"

\* C15 witness: the gather_dns_records of the apex and of a probe have
\* returned records, another probe being still inside its own.
C15_ReturnedWithRecords ==
    \E r \in Requests :
        /\ GatherReturned(apex[r])
        /\ apex[r].results # EmptyDict
        /\ Len(apex[r].tasks) = Len(RECORD_TYPES)
        /\ \E p, q \in DOMAIN probes[r] :
               /\ GatherReturned(probes[r][p].g)
               /\ probes[r][p].g.results # EmptyDict
               /\ probes[r][q].state = "inside"

\* the indexes a probe can have with the wordlists there are
ProbeIds == UNION {DOMAIN Candidates(WordlistFiles[f]) : f \in DOMAIN WordlistFiles}

\* C16: when every query completes in the end, every probe that waits for the
\* semaphore is admitted, _enumerate_subdomains returns, and it has returned
\* only when every probe is done.
C16_AdmittedAndReturns ==
    /\ \A p \in ProbeIds :
           (p \in DOMAIN probes[1] /\ probes[1][p].state = "waiting")
               ~> (p \in DOMAIN probes[1] /\ probes[1][p].state = "inside")
    /\ (pc[1] = "enum") ~> (pc[1] = "done" /\ analysis[1] # <<>>)
    /\ [](pc[1] = "done" => \A p \in DOMAIN probes[1] : probes[1][p].state = "done")

\* C16 witness: the enumeration of three candidates has returned with one
\* permit, so two probes waited for admission.
C16_ReturnedAfterWaiting ==
    /\ pc[1] = "done"
    /\ analysis[1] # <<>>
    /\ request[1].max_concurrency = 1
    /\ Len(probes[1]) = 3
    /\ \A p \in DOMAIN probes[1] : probes[1][p].state = "done"

\* C17: the evidence of _classify_provider has key "mx" exactly when the MX
\* list is not empty, holding that list unchanged, and key "txt" exactly when
\* the TXT list is not empty, holding that list unchanged, and no other key,
\* whichever label was chosen.
C17_EvidenceIsTheNonEmptyLists ==
    \A r \in Requests :
        pc[r] = "classified" =>
            LET mx == Get(apex[r].results, "MX")
                txt == Get(apex[r].results, "TXT")
                evidence == response[r][1].providers.evidence
            IN  /\ DOMAIN evidence \subseteq {"mx", "txt"}
                /\ "mx" \in DOMAIN evidence <=> mx # <<>>
                /\ "txt" \in DOMAIN evidence <=> txt # <<>>
                /\ "mx" \in DOMAIN evidence => evidence["mx"] = mx
                /\ "txt" \in DOMAIN evidence => evidence["txt"] = txt

\* C17 witness: MX hosts that set no flag and no TXT record: the label is
\* "Other / Unknown" and the evidence holds the MX list alone.
C17_MxOnlyNoLabel ==
    \E r \in Requests :
        /\ pc[r] = "classified"
        /\ response[r][1].providers.email = "Other / Unknown"
        /\ "MX" \in DOMAIN apex[r].results
        /\ "TXT" \notin DOMAIN apex[r].results
        /\ DOMAIN response[r][1].providers.evidence = {"mx"}
        /\ response[r][1].providers.evidence["mx"] = apex[r].results["MX"]

\* C18 as stated: free permits plus the probes holding a permit are
\* max_concurrency in every state, a probe holding a permit only while it is
\* inside gather_dns_records, and when the enumeration has ended, returned or
\* cancelled, every permit is free.
C18_PermitsHeldOnlyInside ==
    \A r \in Requests :
        probes[r] # <<>> =>
            /\ semaphore[r].value + Cardinality(Inside(probes[r])) =
                   request[r].max_concurrency
            /\ pc[r] \in {"done", "cancelled"} =>
                   semaphore[r].value = request[r].max_concurrency

\* C18 amended: the semaphore conserves permits: the free permits plus the
\* probes holding one are max_concurrency.  A probe holds a permit while it is
\* inside gather_dns_records and, when release() handed it the permit in the
\* queue of acquire(), from that moment until its next step, which enters
\* gather_dns_records or, under a cancellation, gives the permit back; a probe
\* not started, waiting, done or cancelled holds none.  When the enumeration
\* has ended, returned or cancelled, every permit is free.
C18_PermitsConserved ==
    \A r \in Requests :
        probes[r] # <<>> =>
            /\ semaphore[r].value >= 0
            /\ semaphore[r].value + Cardinality(Inside(probes[r]))
                   + Cardinality(Woken(probes[r])) = request[r].max_concurrency
            /\ Range(semaphore[r].waiters) =
                   {p \in DOMAIN probes[r] : probes[r][p].state \in {"waiting", "woken"}}
            /\ \A p \in DOMAIN probes[r] :
                   probes[r][p].state \in {"created", "waiting", "woken"} =>
                       probes[r][p].g = NoGather
            /\ pc[r] \in {"done", "cancelled"} =>
                   /\ Inside(probes[r]) = {}
                   /\ Woken(probes[r]) = {}
                   /\ semaphore[r].value = request[r].max_concurrency

\* C18 witness: the enumeration was cancelled after one probe had returned
\* and handed its permit on, with another probe inside gather_dns_records,
\* and every permit is free again.
C18_FreeAfterReturnAndCancel ==
    \E r \in Requests :
        /\ pc[r] = "cancelled"
        /\ semaphore[r].value = request[r].max_concurrency
        /\ Len(probes[r]) > request[r].max_concurrency
        /\ \E p, q \in DOMAIN probes[r] :
               /\ probes[r][p].state = "done"
               /\ probes[r][q].state = "cancelled"
               /\ probes[r][q].g # NoGather

\* the handlers that call db.save_analysis
Savers == {"get_domain_analysis", "get_report"}

\* the domains of the analyses a handler has passed to save_analysis so far:
\* analyze_domain returned them with exists true (main.py lines 95-97, 154-156)
SavedDomains ==
    {analysis[r][1].domain :
        r \in {q \in Requests : /\ request[q].entry \in Savers
                                /\ analysis[q] # <<>>
                                /\ analysis[q][1].exists}}

====
